---- MODULE Spec2Model ----
(***************************************************************************)
(* Space Claw: the agent turn (agent.ts), the tool dispatcher              *)
(* (tools/index.ts), the provider adapters (providers/*.ts) and the        *)
(* SQLite-backed conversation store (memory.ts, core-memory.ts).           *)
(*                                                                         *)
(* JavaScript values are represented as follows.                           *)
(*   - a value of type T | null is an option: Null for null, Some(v) for v *)
(*   - a property that is absent (undefined) is a field outside DOMAIN     *)
(*   - an array is a sequence, an object a record                          *)
(***************************************************************************)
EXTENDS Integers, Sequences, FiniteSets, TLC

\* ------------------------------------------------------------------ bounds

\* Largest AGENT_MAX_ITERATIONS the model draws (config accepts any /^\d+$/).
MaxCap == 2

\* The number of updates the bot is followed through.
MaxUpdates == 2

\* ------------------------------------------------------------------ values

Null == <<>>
Some(v) == <<v>>
IsNull(o) == Len(o) = 0
\* o ?? d
OrElse(o, d) == IF IsNull(o) THEN d ELSE o[1]

StartsWith(s, p) == Len(s) >= Len(p) /\ SubSeq(s, 1, Len(p)) = p

Range(s) == {s[i] : i \in 1..Len(s)}

RECURSIVE Concat(_)
\* [].concat(...ss): the elements of the sequences of ss, in order
Concat(ss) == IF Len(ss) = 0 THEN <<>> ELSE Head(ss) \o Concat(Tail(ss))

RECURSIVE Join(_)
\* ss.join("")
Join(ss) == IF Len(ss) = 0 THEN "" ELSE Head(ss) \o Join(Tail(ss))

\* ------------------------------------------------------------ JSON values
\* A JSON text is represented by its syntax tree: the string, null, array
\* and object values JSON.stringify writes and JSON.parse reads back. A
\* property whose value is undefined (absent) is not written.

JString(str) == [t |-> "string", s |-> str, items |-> <<>>]
JNull == [t |-> "null", s |-> "", items |-> <<>>]
JArray(elements) == [t |-> "array", s |-> "", items |-> elements]
JObject(members) == [t |-> "object", s |-> "", items |-> members]
JMember(k, v) == [key |-> k, value |-> v]

\* the value of member k of the JSON object j
MemberOf(j, k) ==
    LET i == CHOOSE n \in 1..Len(j.items) : j.items[n].key = k
    IN j.items[i].value

\* ------------------------------------------------- canonical messages

SystemMessage(text) == [role |-> "system", content |-> Some(text)]
UserMessage(text) == [role |-> "user", content |-> Some(text)]
AssistantText(text) == [role |-> "assistant", content |-> Some(text)]
ToolMessage(id, output) ==
    [role |-> "tool", tool_call_id |-> id, content |-> Some(output)]

\* The OpenAI wire form of one tool call, as stored in tool_calls
WireToolCall(id, name, arguments) ==
    [id |-> id, type |-> "function",
     function |-> [name |-> name, arguments |-> arguments]]

\* ------------------------------------------------------ tool arguments

EmptyObject == <<>>
GoodArgs == "{\"text\":\"a\"}"
BadArgs == "{bad json"
NullArgs == "null"

\* JSON.stringify of an arguments object (objects with at most a text key)
JSONStringifyArgs(obj) ==
    IF "text" \in DOMAIN obj
    THEN "{\"text\":\"" \o obj.text \o "\"}"
    ELSE "{}"

\* JSON.parse of an argument text: threw, or the parsed value (an object or
\* null)
JSONParseArgs(rawArgs) ==
    CASE rawArgs = "{}" -> [threw |-> FALSE, value |-> Some(EmptyObject)]
      [] rawArgs = GoodArgs -> [threw |-> FALSE, value |-> Some([text |-> "a"])]
      [] rawArgs = NullArgs -> [threw |-> FALSE, value |-> Null]
      [] OTHER -> [threw |-> TRUE, value |-> Null]

\* ---------------------------------------------- tool registry & dispatch

\* The names of the registered tools the model exercises
RegisteredTools == {"echo"}

\* echoTool.spec: the function name and its parameters schema
EchoSpec ==
    [name |-> "echo",
     parameters |->
         JObject(<<JMember("type", JString("object")),
                   JMember("properties",
                           JObject(<<JMember("text",
                               JObject(<<JMember("type", JString("string")),
                                         JMember("description",
                                                 JString("The text to echo back."))>>))>>)),
                   JMember("required", JArray(<<JString("text")>>)),
                   JMember("additionalProperties",
                           [t |-> "false", s |-> "", items |-> <<>>])>>)]

Returned(text) == [threw |-> FALSE, value |-> text]
Threw(err) == [threw |-> TRUE, value |-> err]

\* echoTool.execute: String(args["text"] ?? ""); args === null raises
EchoExecute(args) ==
    IF IsNull(args)
    THEN Threw("TypeError: Cannot read properties of null (reading 'text')")
    ELSE Returned("Echo: " \o
                  (IF "text" \in DOMAIN args[1] THEN args[1].text ELSE ""))

Execute(name, args) == EchoExecute(args)

\* dispatchTool without the try/catch around execute
DispatchToolNoCatch(name, rawArgs) ==
    IF name \notin RegisteredTools
    THEN Returned("Error: unknown tool \"" \o name \o "\"")
    ELSE LET p == JSONParseArgs(rawArgs) IN
         IF p.threw
         THEN Returned("Error: could not parse arguments as JSON: " \o rawArgs)
         ELSE Execute(name, p.value)

DispatchTool(name, rawArgs) ==
    IF name \notin RegisteredTools
    THEN Returned("Error: unknown tool \"" \o name \o "\"")
    ELSE LET p == JSONParseArgs(rawArgs) IN
         IF p.threw
         THEN Returned("Error: could not parse arguments as JSON: " \o rawArgs)
         ELSE LET e == Execute(name, p.value) IN
              IF e.threw
              THEN Returned("Error executing \"" \o name \o "\": " \o e.value)
              ELSE Returned(e.value)

\* ------------------------------------------------------ provider adapters
\* An LLMResponse is [content, toolCalls, assistantMessage] with content and
\* toolCalls options (providers/types.ts).

ToolCallOfWire(tc) ==
    [id |-> tc.id, name |-> tc.function.name,
     arguments |-> tc.function.arguments]

WireOfToolCall(tc) == WireToolCall(tc.id, tc.name, tc.arguments)

\* makeOpenAICompatible.complete with the text content kept beside the tool
\* calls
OpenAICompleteKeepContent(msg) ==
    IF "tool_calls" \in DOMAIN msg /\ Len(msg.tool_calls) > 0
    THEN [content |-> msg.content,
          toolCalls |-> Some([i \in 1..Len(msg.tool_calls) |->
                                 ToolCallOfWire(msg.tool_calls[i])]),
          assistantMessage |-> msg]
    ELSE [content |-> Some(OrElse(msg.content, "(no response)")),
          toolCalls |-> Null,
          assistantMessage |-> msg]

\* makeOpenAICompatible.complete, from choice.message on (msg is
\* response.choices[0].message)
OpenAIComplete(msg) ==
    IF "tool_calls" \in DOMAIN msg /\ Len(msg.tool_calls) > 0
    THEN [content |-> Null,
          toolCalls |-> Some([i \in 1..Len(msg.tool_calls) |->
                                 ToolCallOfWire(msg.tool_calls[i])]),
          assistantMessage |-> msg]
    ELSE [content |-> Some(OrElse(msg.content, "(no response)")),
          toolCalls |-> Null,
          assistantMessage |-> msg]

IsToolUse(b) == b.type = "tool_use"
IsTextBlock(b) == b.type = "text"
BlockText(b) == b.text

\* the text blocks of an Anthropic response, joined
TextOf(content) ==
    LET texts == SelectSeq(content, IsTextBlock)
    IN Join([i \in 1..Len(texts) |-> BlockText(texts[i])])

\* createAnthropicProvider.complete, from the response on (content is
\* response.content)
AnthropicComplete(content) ==
    LET toolUseBlocks == SelectSeq(content, IsToolUse)
        text == TextOf(content)
        calls == [i \in 1..Len(toolUseBlocks) |->
                     [id |-> toolUseBlocks[i].id,
                      name |-> toolUseBlocks[i].name,
                      arguments |-> JSONStringifyArgs(toolUseBlocks[i].input)]]
    IN IF Len(toolUseBlocks) > 0
       THEN [content |-> Null,
             toolCalls |-> Some(calls),
             assistantMessage |->
                 [role |-> "assistant",
                  content |-> IF text = "" THEN Null ELSE Some(text),
                  tool_calls |-> [i \in 1..Len(calls) |->
                                     WireOfToolCall(calls[i])]]]
       ELSE [content |-> Some(IF text = "" THEN "(no response)" ELSE text),
             toolCalls |-> Null,
             assistantMessage |->
                 AssistantText(IF text = "" THEN "(no response)" ELSE text)]

\* createGoogleProvider.complete with a call counter that starts at 1
GeminiCompleteFromOne(response) ==
    IF "functionCalls" \in DOMAIN response /\ Len(response.functionCalls) > 0
    THEN LET fnCalls == response.functionCalls
             toolCalls == [i \in 1..Len(fnCalls) |->
                              [id |-> "gemini-" \o ToString(i),
                               name |-> fnCalls[i].name,
                               arguments |-> JSONStringifyArgs(fnCalls[i].args)]]
         IN [content |-> Null,
             toolCalls |-> Some(toolCalls),
             assistantMessage |->
                 [role |-> "assistant",
                  content |-> Null,
                  tool_calls |-> [i \in 1..Len(toolCalls) |->
                                     WireOfToolCall(toolCalls[i])]]]
    ELSE [content |-> Some(IF response.text = "" THEN "(no response)"
                           ELSE response.text),
          toolCalls |-> Null,
          assistantMessage |->
              AssistantText(IF response.text = "" THEN "(no response)"
                            ELSE response.text)]

\* createGoogleProvider.complete, from the response on: functionCalls is
\* response.functionCalls() (absent for undefined), text is response.text()
GeminiComplete(response) ==
    IF "functionCalls" \in DOMAIN response /\ Len(response.functionCalls) > 0
    THEN LET fnCalls == response.functionCalls
             toolCalls == [i \in 1..Len(fnCalls) |->
                              [id |-> "gemini-" \o ToString(i - 1),
                               name |-> fnCalls[i].name,
                               arguments |-> JSONStringifyArgs(fnCalls[i].args)]]
         IN [content |-> Null,
             toolCalls |-> Some(toolCalls),
             assistantMessage |->
                 [role |-> "assistant",
                  content |-> Null,
                  tool_calls |-> [i \in 1..Len(toolCalls) |->
                                     WireOfToolCall(toolCalls[i])]]]
    ELSE [content |-> Some(IF response.text = "" THEN "(no response)"
                           ELSE response.text),
          toolCalls |-> Null,
          assistantMessage |->
              AssistantText(IF response.text = "" THEN "(no response)"
                            ELSE response.text)]

\* ---------------------------------------------- what the adapters send
\* A message of a native request has its string content in text and its
\* array content in blocks (Anthropic) or parts (Gemini).

\* a translation that gives every tool result a user message of its own
AppendToolResultAlone(msgs, block) ==
    Append(msgs, [role |-> "user", blocks |-> <<block>>])

\* toAnthropicMessages, role "tool": the tool_result block joins the last
\* message when that is a user message with array content, else it starts one
AppendToolResult(msgs, block) ==
    IF /\ Len(msgs) > 0
       /\ msgs[Len(msgs)].role = "user"
       /\ "blocks" \in DOMAIN msgs[Len(msgs)]
    THEN [msgs EXCEPT ![Len(msgs)].blocks = Append(@, block)]
    ELSE Append(msgs, [role |-> "user", blocks |-> <<block>>])

\* toAnthropicMessages(messages): [threw, system, msgs]; threw when
\* JSON.parse of a tool call's arguments raises
ToAnthropicMessages(messages) ==
    LET RECURSIVE Convert(_, _)
        Convert(n, acc) ==
            IF n > Len(messages) THEN acc
            ELSE LET m == messages[n] IN
              CASE m.role = "system" ->
                     Convert(n + 1, [acc EXCEPT !.system = OrElse(m.content, "")])
                [] m.role = "user" ->
                     Convert(n + 1,
                             [acc EXCEPT !.msgs =
                                 Append(@, [role |-> "user",
                                            text |-> OrElse(m.content, "null")])])
                [] m.role = "assistant" ->
                     LET textBlocks ==
                             IF ~IsNull(m.content) /\ Len(m.content[1]) > 0
                             THEN <<[type |-> "text", text |-> m.content[1]]>>
                             ELSE <<>>
                         tcs == IF "tool_calls" \in DOMAIN m
                                THEN m.tool_calls ELSE <<>>
                         parsed ==
                             [i \in 1..Len(tcs) |->
                                 JSONParseArgs(IF tcs[i].function.arguments = ""
                                               THEN "{}"
                                               ELSE tcs[i].function.arguments)]
                         contentBlocks ==
                             textBlocks \o
                             [i \in 1..Len(tcs) |->
                                 [type |-> "tool_use", id |-> tcs[i].id,
                                  name |-> tcs[i].function.name,
                                  input |-> parsed[i].value]]
                     IN IF \E i \in 1..Len(tcs) : parsed[i].threw
                        THEN [acc EXCEPT !.threw = TRUE]
                        ELSE Convert(n + 1,
                                     IF Len(contentBlocks) > 0
                                     THEN [acc EXCEPT !.msgs =
                                              Append(@, [role |-> "assistant",
                                                         blocks |-> contentBlocks])]
                                     ELSE acc)
                [] OTHER ->
                     Convert(n + 1,
                             [acc EXCEPT !.msgs =
                                 AppendToolResult(@,
                                     [type |-> "tool_result",
                                      tool_use_id |-> m.tool_call_id,
                                      content |-> OrElse(m.content, "null")])])
    IN Convert(1, [threw |-> FALSE, system |-> "", msgs |-> <<>>])

\* toGeminiHistory(messages): [threw, system, history, lastUserMessage];
\* threw when JSON.parse of a tool call's arguments raises
ToGeminiHistory(messages) ==
    LET IsSystem(m) == m.role = "system"
        NotSystem(m) == m.role # "system"
        systems == SelectSeq(messages, IsSystem)
        nonSystem == SelectSeq(messages, NotSystem)
        RECURSIVE Convert(_, _)
        Convert(i, acc) ==
            IF i > Len(nonSystem) THEN acc
            ELSE LET m == nonSystem[i] IN
              CASE m.role = "user" ->
                     LET text == OrElse(m.content, "\"\"") IN
                     IF i = Len(nonSystem)
                     THEN Convert(i + 1, [acc EXCEPT !.lastUserMessage = text])
                     ELSE Convert(i + 1,
                                  [acc EXCEPT !.history =
                                      Append(@, [role |-> "user",
                                                 parts |-> <<[text |-> text]>>])])
                [] m.role = "assistant" ->
                     LET text == OrElse(m.content, "")
                         tcs == IF "tool_calls" \in DOMAIN m
                                THEN m.tool_calls ELSE <<>>
                         parsed ==
                             [k \in 1..Len(tcs) |->
                                 JSONParseArgs(IF tcs[k].function.arguments = ""
                                               THEN "{}"
                                               ELSE tcs[k].function.arguments)]
                     IN IF Len(tcs) > 0
                        THEN IF \E k \in 1..Len(tcs) : parsed[k].threw
                             THEN [acc EXCEPT !.threw = TRUE]
                             ELSE Convert(i + 1,
                                    [acc EXCEPT !.history =
                                        Append(@, [role |-> "model",
                                                   parts |->
                                            [k \in 1..Len(tcs) |->
                                                [functionCall |->
                                                    [name |-> tcs[k].function.name,
                                                     args |-> parsed[k].value]]]])])
                        ELSE IF Len(text) > 0
                             THEN Convert(i + 1,
                                    [acc EXCEPT !.history =
                                        Append(@, [role |-> "model",
                                                   parts |-> <<[text |-> text]>>])])
                             ELSE Convert(i + 1, acc)
                [] OTHER ->
                     Convert(i + 1,
                             [acc EXCEPT !.history =
                                 Append(@, [role |-> "function",
                                            parts |->
                                     <<[functionResponse |->
                                          [name |-> "tool",
                                           response |->
                                               [content |-> OrElse(m.content, "")]]]>>])])
    IN Convert(1, [threw |-> FALSE,
                   system |-> IF Len(systems) = 0 THEN ""
                              ELSE OrElse(systems[Len(systems)].content, ""),
                   history |-> <<>>,
                   lastUserMessage |-> ""])

GEMINI_UNSUPPORTED_KEYS ==
    {"additionalProperties", "$schema", "$defs", "$ref", "examples",
     "default", "title", "definitions"}

\* stripGeminiUnsupported(obj): arrays are mapped, objects lose the members
\* whose key is unsupported and keep the others stripped, other values stay
RECURSIVE StripGeminiUnsupported(_)
StripGeminiUnsupported(obj) ==
    CASE obj.t = "array" ->
             JArray([i \in 1..Len(obj.items) |->
                        StripGeminiUnsupported(obj.items[i])])
      [] obj.t = "object" ->
             LET Supported(member) == member.key \notin GEMINI_UNSUPPORTED_KEYS
                 kept == SelectSeq(obj.items, Supported)
             IN JObject([i \in 1..Len(kept) |->
                            JMember(kept[i].key,
                                    StripGeminiUnsupported(kept[i].value))])
      [] OTHER -> obj

\* sanitizeGeminiParams(raw): stripped, without its type, its required
\* list cut down to the keys of its properties and removed when empty or
\* when there are no properties
SanitizeGeminiParams(raw) ==
    LET NotType(member) == member.key # "type"
        stripped == JObject(SelectSeq(StripGeminiUnsupported(raw).items, NotType))
        Has(k) == \E n \in 1..Len(stripped.items) : stripped.items[n].key = k
        NotRequired(member) == member.key # "required"
        Truthy(j) == ~(j.t \in {"null", "false"} \/ (j.t = "string" /\ j.s = ""))
        withoutRequired == JObject(SelectSeq(stripped.items, NotRequired))
    IN IF ~Has("required") THEN stripped
       ELSE LET required == MemberOf(stripped, "required") IN
            IF /\ required.t = "array"
               /\ Has("properties")
               /\ Truthy(MemberOf(stripped, "properties"))
            THEN LET props == MemberOf(stripped, "properties")
                     InProps(k) ==
                         \E n \in 1..Len(props.items) : props.items[n].key = k.s
                     filtered == SelectSeq(required.items, InProps)
                 IN IF Len(filtered) = 0 THEN withoutRequired
                    ELSE JObject([n \in 1..Len(stripped.items) |->
                                     IF stripped.items[n].key = "required"
                                     THEN JMember("required", JArray(filtered))
                                     ELSE stripped.items[n]])
            ELSE IF Truthy(required) THEN withoutRequired ELSE stripped

\* what provider.complete of the provider built for id puts into its
\* request for the messages msgs and the tool specs tls: the
\* OpenAI-compatible adapters pass both on as they are
ProviderRequest(id, msgs, tls) ==
    CASE id = "anthropic" ->
             [native |-> ToAnthropicMessages(msgs), tools |-> tls]
      [] id = "google" ->
             [native |-> ToGeminiHistory(msgs),
              tools |-> [i \in 1..Len(tls) |->
                            [name |-> tls[i].name,
                             parameters |->
                                 JObject(<<JMember("type", JString("OBJECT"))>>
                                         \o SanitizeGeminiParams(
                                                tls[i].parameters).items)]]]
      [] OTHER ->
             [native |-> [threw |-> FALSE, messages |-> msgs], tools |-> tls]

\* The provider ids buildProvider knows; groq shares the OpenAI adapter
ProviderIds == {"openai", "anthropic", "google", "groq"}

\* provider.complete of the provider built for id, applied to what the
\* backend answered
Complete(id, raw) ==
    CASE id = "anthropic" -> AnthropicComplete(raw)
      [] id = "google" -> GeminiComplete(raw)
      [] OTHER -> OpenAIComplete(raw)

\* ---------------------------------------- what the backends may answer

\* Tool-call ids a backend assigns
ToolCallIds == {"call_a", "call_b"}

\* (name, argument text) batches an OpenAI-compatible backend may request
OpenAIBatches ==
    { <<[name |-> "echo", arguments |-> GoodArgs]>>,
      <<[name |-> "foo_bar", arguments |-> GoodArgs]>>,
      <<[name |-> "echo", arguments |-> BadArgs]>>,
      <<[name |-> "echo", arguments |-> NullArgs]>>,
      <<[name |-> "echo", arguments |-> GoodArgs],
        [name |-> "foo_bar", arguments |-> BadArgs]>>,
      <<[name |-> "foo_bar", arguments |-> GoodArgs],
        [name |-> "echo", arguments |-> NullArgs]>> }

\* (name, input object) batches of Anthropic and Gemini
ObjectBatches ==
    { <<[name |-> "echo", args |-> [text |-> "a"]]>>,
      <<[name |-> "foo_bar", args |-> EmptyObject]>>,
      <<[name |-> "echo", args |-> EmptyObject],
        [name |-> "foo_bar", args |-> [text |-> "a"]]>> }

\* The ways a backend may assign pairwise distinct ids to k calls
IdAssignments(k) ==
    {ids \in [1..k -> ToolCallIds] :
        \A i, j \in 1..k : i # j => ids[i] # ids[j]}

OpenAIMessages ==
    {[role |-> "assistant", content |-> c] : c \in {Null, Some("hello")}}
    \cup {[role |-> "assistant", content |-> Some("hello"), tool_calls |-> <<>>]}
    \cup {[role |-> "assistant", content |-> c,
           tool_calls |-> [i \in 1..Len(b) |->
                              WireToolCall(ids[i], b[i].name, b[i].arguments)]] :
             c \in {Null}, ids \in IdAssignments(2), b \in OpenAIBatches}
    \cup {[role |-> "assistant", content |-> Some("thinking"),
           tool_calls |-> <<WireToolCall("call_a", "echo", GoodArgs)>>]}

AnthropicContents ==
    { <<>>, <<[type |-> "text", text |-> "hello"]>> }
    \cup {[i \in 1..Len(b) |->
              [type |-> "tool_use", id |-> ids[i], name |-> b[i].name,
               input |-> b[i].args]] :
             ids \in IdAssignments(2), b \in ObjectBatches}
    \cup { <<[type |-> "text", text |-> "thinking"],
            [type |-> "tool_use", id |-> "call_b", name |-> "echo",
             input |-> [text |-> "a"]]>> }

GeminiResponses ==
    {[text |-> t] : t \in {"", "hello"}}
    \cup {[functionCalls |-> <<>>, text |-> "hello"]}
    \cup {[functionCalls |-> b, text |-> ""] : b \in ObjectBatches}

BackendResponses(id) ==
    CASE id = "anthropic" -> AnthropicContents
      [] id = "google" -> GeminiResponses
      [] OTHER -> OpenAIMessages


\* ------------------------------------------------------- the agent turn

VARIABLES
    maxIterations,   \* config.AGENT_MAX_ITERATIONS
    activeProvider,  \* id of the provider getActiveProvider() returns
    pc,              \* where runAgentTurn stands
    history,         \* the caller's list passed as history
    userMessage,     \* the caller's userMessage
    messages,        \* runAgentTurn's messages array
    iterations,      \* runAgentTurn's iterations
    result,          \* the LLMResponse of the current iteration
    toolOutputs,     \* per call of the batch: Null while running, else Some(outcome)
    completed,       \* the calls of the batch in the order they completed
    responses,       \* log: every LLMResponse provider.complete returned this turn
    calls,           \* log: number of provider.complete calls of this turn
    reply,           \* the returned reply
    updatedHistory,  \* the returned updatedHistory
    semanticMemory,  \* isSupabaseConfigured()
    systemPrompt,    \* buildSystemPrompt: baseWithCore, then the prompt returned
    searchOutcome,   \* log: how the turn's semanticSearch went
    extractions,     \* the extractAndSaveFacts calls started, each
                     \* [pc, userMessage, assistantReply]
    tools,           \* getOpenAITools(): the specs of the registered tools,
                     \* each [name, parameters]
    request,         \* what the adapter sent to the backend for the current
                     \* provider call
    backend          \* what the backend answered to it (Null while awaited)

turnVars ==
    <<maxIterations, activeProvider, pc, history, userMessage, messages,
      iterations, result, toolOutputs, completed, responses, calls, reply,
      updatedHistory, semanticMemory, systemPrompt, searchOutcome,
      extractions, tools, request, backend>>

\* the fixed warning of the max-iteration return (its leading warning sign
\* left out)
MaxIterationsReply ==
    "I hit my maximum tool-call limit for this turn. Please try again or rephrase your request."

VARIABLES
    SOUL,                \* the trimmed text of soul.md as last read
    BASE_SYSTEM_PROMPT,  \* the base system prompt as last built
    skills,              \* Null until loadSkills() has run (_loaded), then
                         \* the names of the loaded skills (_skills)
    startup              \* "imported": the modules are evaluated, main() has
                         \* not run; "started": main() has reached bot.start()

promptVars == <<SOUL, BASE_SYSTEM_PROMPT, skills, startup>>

\* getSkillsBlock() (each skill by its name, the contents left out)
GetSkillsBlock(loaded) ==
    IF IsNull(loaded) \/ Len(loaded[1]) = 0 THEN ""
    ELSE "\n\n## Loaded Skills\n\n"
             \o Join([i \in 1..Len(loaded[1]) |->
                         (IF i > 1 THEN "\n\n---\n\n" ELSE "")
                             \o "### " \o loaded[1][i]])

\* buildBaseSystemPrompt() (the fixed text cut short)
BuildBaseSystemPrompt(soul, loaded) ==
    "You are Space Claw"
        \o (IF soul # "" THEN "\n\n## Personality & Behaviour\n\n" \o soul ELSE "")
        \o GetSkillsBlock(loaded)

\* the prompt state of a process that was started without a soul.md and
\* without skill files
PromptServing ==
    /\ SOUL = ""
    /\ skills = Some(<<>>)
    /\ BASE_SYSTEM_PROMPT = BuildBaseSystemPrompt(SOUL, skills)
    /\ startup = "started"

\* buildSystemPrompt, the owner profile: baseWithCore (the block header cut
\* short)
BaseWithCore(coreMemories) ==
    IF Len(coreMemories) > 0
    THEN BASE_SYSTEM_PROMPT \o "\n\n[OWNER PROFILE]\n"
             \o Join([i \in 1..Len(coreMemories) |->
                         (IF i > 1 THEN "\n" ELSE "")
                             \o coreMemories[i].label \o ": "
                             \o coreMemories[i].value])
    ELSE BASE_SYSTEM_PROMPT

\* the memory-context block appended whatever the search returned
WithMemoryContextAlways(baseWithCore, memories) ==
    baseWithCore \o "\n\n[MEMORY CONTEXT]\n"
        \o Join([i \in 1..Len(memories) |->
                    (IF i > 1 THEN "\n" ELSE "")
                        \o memories[i].title \o ": " \o memories[i].body])

\* buildSystemPrompt once semanticSearch returned memories (the block header
\* cut short)
WithMemoryContext(baseWithCore, memories) ==
    IF Len(memories) = 0
    THEN baseWithCore
    ELSE baseWithCore \o "\n\n[MEMORY CONTEXT]\n"
             \o Join([i \in 1..Len(memories) |->
                         (IF i > 1 THEN "\n" ELSE "")
                             \o memories[i].title \o ": " \o memories[i].body])

\* how the two requests of semanticSearch may end: getEmbedding rejects, or
\* supabase.rpc rejects, or it resolves to {data, error}
NoSearch == [threw |-> FALSE, error |-> FALSE, data |-> Null, at |-> "none"]
SearchOutcomes ==
    {[threw |-> TRUE, error |-> FALSE, data |-> Null, at |-> "rpc"],
     [threw |-> FALSE, error |-> TRUE, data |-> Null, at |-> "rpc"],
     [threw |-> FALSE, error |-> FALSE, data |-> Null, at |-> "rpc"],
     [threw |-> FALSE, error |-> FALSE, data |-> Some(<<>>), at |-> "rpc"],
     [threw |-> FALSE, error |-> FALSE, at |-> "rpc",
      data |-> Some(<<[title |-> "pet", body |-> "cat", similarity |-> 1]>>)]}

\* what semanticSearch returns for the outcome o: [] when a request rejected,
\* when error is set, or when mapping a null data raised
SemanticSearch(o) ==
    IF o.threw \/ o.error \/ IsNull(o.data)
    THEN <<>>
    ELSE [i \in 1..Len(o.data[1]) |->
             [title |-> o.data[1][i].title, body |-> o.data[1][i].body,
              similarity |-> o.data[1][i].similarity]]

\* the messages array of the turn
TurnMessages(prompt, h, text) ==
    <<SystemMessage(prompt)>> \o h \o <<UserMessage(text)>>

\* the prior histories and user texts a turn is started with
PriorHistories ==
    { <<>>,
      <<UserMessage("earlier"), AssistantText("ok")>>,
      <<UserMessage("earlier"),
        [role |-> "assistant", content |-> Null,
         tool_calls |-> <<WireToolCall("call_a", "echo", GoodArgs)>>],
        ToolMessage("call_a", "Echo: a")>>,
      <<UserMessage("hi"),
        [role |-> "assistant", content |-> Null,
         tool_calls |-> <<WireToolCall("call_a", "echo", BadArgs)>>],
        ToolMessage("call_a",
                    "Error: could not parse arguments as JSON: " \o BadArgs)>> }
UserTexts == {"hi", "again"}

NoResult == [content |-> Null, toolCalls |-> Null,
             assistantMessage |-> AssistantText("")]

\* while (iterations < config.AGENT_MAX_ITERATIONS), off by one
LoopGuardInclusive(n, cap) == n <= cap

\* while (iterations < config.AGENT_MAX_ITERATIONS)
LoopGuard(n, cap) == n < cap

\* a final-reply test that never sees the tool calls
IsFinalAlways(r) == TRUE

\* !result.toolCalls || result.toolCalls.length === 0
IsFinal(r) == IsNull(r.toolCalls) \/ Len(r.toolCalls[1]) = 0

\* the whole messages array, system message included
UpdatedHistoryWhole(msgs) == msgs

\* messages.slice(1)
UpdatedHistory(msgs) == Tail(msgs)

\* the tool messages in the order the calls completed
ToolResultsAsCompleted(batch, outputs, order) ==
    [k \in 1..Len(order) |->
        ToolMessage(batch[order[k]].id, outputs[order[k]][1].value)]

\* tool messages that carry the name of the tool as tool_call_id
ToolResultsByName(batch, outputs, order) ==
    [i \in 1..Len(batch) |-> ToolMessage(batch[i].name, outputs[i][1].value)]

\* the array Promise.all resolves to: one tool message per call, in the
\* order of the calls, whatever order they completed in
ToolResults(batch, outputs, order) ==
    [i \in 1..Len(batch) |-> ToolMessage(batch[i].id, outputs[i][1].value)]

\* the transform of the configuration schema: Number(str) of a string of
\* decimal digits
RECURSIVE DecimalValue(_)
DecimalValue(str) ==
    IF Len(str) = 0 THEN 0
    ELSE 10 * DecimalValue(SubSeq(str, 1, Len(str) - 1))
         + (CHOOSE d \in 0..9 : ToString(d) = SubSeq(str, Len(str), Len(str)))

\* config.AGENT_MAX_ITERATIONS for the environment value env: the value
\* must match /^\d+$/ and is turned into a number; Null when the schema
\* refuses it and the process does not start
AGENT_MAX_ITERATIONS(env) ==
    IF /\ Len(env) > 0
       /\ \A i \in 1..Len(env) :
             SubSeq(env, i, i) \in {ToString(d) : d \in 0..9}
    THEN Some(DecimalValue(env))
    ELSE Null

\* values the environment may give AGENT_MAX_ITERATIONS
EnvMaxIterations ==
    {ToString(n) : n \in 0..MaxCap} \cup {"", "-1", "1.5", "ten", "01"}

\* the spec buildMcpTools makes of a tool of an MCP server whose input
\* schema has an object parameter with parameters of its own
McpNoteSpec ==
    [name |-> "mcp__notes__add",
     parameters |->
         JObject(<<JMember("$schema", JString("http://json-schema.org/draft-07/schema#")),
                   JMember("type", JString("object")),
                   JMember("properties",
                           JObject(<<JMember("note",
                               JObject(<<JMember("type", JString("object")),
                                         JMember("properties",
                                             JObject(<<JMember("title",
                                                  JObject(<<JMember("type", JString("string"))>>)),
                                                       JMember("text",
                                                  JObject(<<JMember("type", JString("string")),
                                                            JMember("default", JString(""))>>))>>)),
                                         JMember("required",
                                                 JArray(<<JString("title"), JString("text")>>))>>))>>)),
                   JMember("required", JArray(<<JString("note"), JString("draft")>>))>>)]

\* rememberTool.spec
RememberSpec ==
    [name |-> "remember",
     parameters |->
         JObject(<<JMember("type", JString("object")),
                   JMember("properties",
                           JObject(<<JMember("title",
                                         JObject(<<JMember("type", JString("string")),
                                                   JMember("description",
                                                           JString("A short, descriptive title for the note"))>>)),
                                     JMember("body",
                                         JObject(<<JMember("type", JString("string")),
                                                   JMember("description",
                                                           JString("The content to remember."))>>))>>)),
                   JMember("required", JArray(<<JString("title"), JString("body")>>)),
                   JMember("additionalProperties",
                           [t |-> "false", s |-> "", items |-> <<>>])>>)]

\* the tool lists getOpenAITools() may return
ToolLists == { <<EchoSpec>>, <<EchoSpec, RememberSpec, McpNoteSpec>> }

TurnInit ==
    /\ maxIterations \in {AGENT_MAX_ITERATIONS(env)[1] :
                             env \in {e \in EnvMaxIterations :
                                         ~IsNull(AGENT_MAX_ITERATIONS(e))}}
    /\ activeProvider \in ProviderIds
    /\ pc = "idle"
    /\ history = <<>>
    /\ userMessage = ""
    /\ messages = <<>>
    /\ iterations = 0
    /\ result = NoResult
    /\ toolOutputs = <<>>
    /\ completed = <<>>
    /\ responses = <<>>
    /\ calls = 0
    /\ reply = ""
    /\ updatedHistory = <<>>
    /\ semanticMemory \in BOOLEAN
    /\ systemPrompt = ""
    /\ searchOutcome = NoSearch
    /\ extractions = <<>>
    /\ tools \in ToolLists
    /\ request = Null
    /\ backend = Null

\* runAgentTurn(h, text) is called with coreMemories in the store:
\* buildSystemPrompt returns at once when the semantic memory is not
\* configured and the messages array is built; else semanticSearch awaits
\* getEmbedding
RunAgentTurn(h, text, coreMemories) ==
    /\ pc = "idle"
    /\ history' = h
    /\ userMessage' = text
    /\ systemPrompt' = BaseWithCore(coreMemories)
    /\ iterations' = 0
    /\ IF semanticMemory
       THEN /\ pc' = "EMBEDDING"
            /\ UNCHANGED messages
       ELSE /\ pc' = "loop"
            /\ messages' = TurnMessages(systemPrompt', h, text)
    /\ UNCHANGED <<maxIterations, activeProvider, tools, request, backend, result, toolOutputs,
                   completed, responses, calls, reply, updatedHistory,
                   semanticMemory, searchOutcome, extractions>>

\* getEmbedding settles: resolved, semanticSearch awaits supabase.rpc;
\* rejected, semanticSearch returns [] and the messages array is built
GetEmbeddingSettles(threw) ==
    /\ pc = "EMBEDDING"
    /\ IF threw
       THEN /\ searchOutcome' = [NoSearch EXCEPT !.threw = TRUE,
                                                  !.at = "embedding"]
            /\ messages' = TurnMessages(systemPrompt, history, userMessage)
            /\ pc' = "loop"
       ELSE /\ pc' = "SEARCHING"
            /\ UNCHANGED <<searchOutcome, messages>>
    /\ UNCHANGED <<maxIterations, activeProvider, tools, request, backend, history, userMessage,
                   iterations, result, toolOutputs, completed, responses,
                   calls, reply, updatedHistory, semanticMemory, systemPrompt,
                   extractions>>

\* supabase.rpc("search_memories") settles as o: semanticSearch returns,
\* buildSystemPrompt returns and the messages array is built
SearchMemoriesSettles(o) ==
    /\ pc = "SEARCHING"
    /\ searchOutcome' = o
    /\ systemPrompt' = WithMemoryContext(systemPrompt, SemanticSearch(o))
    /\ messages' = TurnMessages(systemPrompt', history, userMessage)
    /\ pc' = "loop"
    /\ UNCHANGED <<maxIterations, activeProvider, tools, request, backend, history, userMessage,
                   iterations, result, toolOutputs, completed, responses,
                   calls, reply, updatedHistory, semanticMemory, extractions>>

\* a loop that builds the system message anew from the base prompt before
\* each provider call
CallProviderFreshPrompt ==
    /\ pc = "loop"
    /\ LoopGuard(iterations, maxIterations)
    /\ iterations' = iterations + 1
    /\ calls' = calls + 1
    /\ pc' = "AWAITING_MODEL"
    /\ messages' = [messages EXCEPT ![1] = SystemMessage(BASE_SYSTEM_PROMPT)]
    /\ request' = Some(ProviderRequest(activeProvider, messages', tools))
    /\ backend' = Null
    /\ UNCHANGED <<maxIterations, activeProvider, tools, history, userMessage,
                   result, toolOutputs, completed, responses, reply,
                   updatedHistory, semanticMemory, systemPrompt, searchOutcome,
                   extractions>>

\* the loop condition holds: iterations++ and provider.complete is called
CallProvider ==
    /\ pc = "loop"
    /\ LoopGuard(iterations, maxIterations)
    /\ iterations' = iterations + 1
    /\ calls' = calls + 1
    /\ pc' = "AWAITING_MODEL"
    /\ request' = Some(ProviderRequest(activeProvider, messages, tools))
    /\ backend' = Null
    /\ UNCHANGED <<maxIterations, activeProvider, tools, history, userMessage,
                   messages, result, toolOutputs, completed, responses, reply,
                   updatedHistory, semanticMemory, systemPrompt, searchOutcome,
                   extractions>>

\* provider.complete resolves with the adapter's reading of what the backend
\* answered: the assistant message is pushed, then either the final reply is
\* returned or the batch is started
ProviderReturns(raw) ==
    /\ pc = "AWAITING_MODEL"
    /\ ~request[1].native.threw
    /\ LET r == Complete(activeProvider, raw)
           msgs == Append(messages, r.assistantMessage)
       IN /\ result' = r
          /\ backend' = Some(raw)
          /\ responses' = Append(responses, r)
          /\ messages' = msgs
          /\ IF IsFinal(r)
             THEN /\ reply' = OrElse(r.content, "(no response)")
                  /\ updatedHistory' = UpdatedHistory(msgs)
                  /\ extractions' =
                         Append(extractions,
                                [pc |-> "running", userMessage |-> userMessage,
                                 assistantReply |-> reply'])
                  /\ pc' = "DONE"
                  /\ toolOutputs' = <<>>
                  /\ completed' = <<>>
             ELSE /\ toolOutputs' = [i \in 1..Len(r.toolCalls[1]) |-> Null]
                  /\ completed' = <<>>
                  /\ pc' = "EXECUTING_TOOLS"
                  /\ UNCHANGED <<reply, updatedHistory, extractions>>
    /\ UNCHANGED <<maxIterations, activeProvider, tools, request, history, userMessage,
                   iterations, calls, semanticMemory, systemPrompt,
                   searchOutcome>>

\* provider.complete rejects (network or API failure, no choices): the
\* rejection leaves runAgentTurn
ProviderThrows ==
    /\ pc = "AWAITING_MODEL"
    /\ pc' = "failed"
    /\ UNCHANGED <<maxIterations, activeProvider, tools, request, backend, history, userMessage,
                   messages, iterations, result, toolOutputs, completed,
                   responses, calls, reply, updatedHistory, semanticMemory,
                   systemPrompt, searchOutcome, extractions>>

\* the dispatchTool of call i of the batch settles
ToolCompletes(i) ==
    /\ pc = "EXECUTING_TOOLS"
    /\ i \in 1..Len(toolOutputs)
    /\ IsNull(toolOutputs[i])
    /\ LET call == result.toolCalls[1][i]
       IN toolOutputs' =
              [toolOutputs EXCEPT ![i] = Some(DispatchTool(call.name, call.arguments))]
    /\ completed' = Append(completed, i)
    /\ UNCHANGED <<maxIterations, activeProvider, tools, request, backend, pc, history, userMessage,
                   messages, iterations, result, responses, calls, reply,
                   updatedHistory, semanticMemory, systemPrompt, searchOutcome,
                   extractions>>

\* a loop that goes round as soon as one call of the batch has settled,
\* pushing the results it has
BatchSettlesOnFirst ==
    /\ pc = "EXECUTING_TOOLS"
    /\ Len(completed) > 0
    /\ IF \E i \in 1..Len(completed) : toolOutputs[completed[i]][1].threw
       THEN /\ pc' = "failed"
            /\ UNCHANGED messages
       ELSE /\ messages' = messages \o
                   [k \in 1..Len(completed) |->
                       ToolMessage(result.toolCalls[1][completed[k]].id,
                                   toolOutputs[completed[k]][1].value)]
            /\ pc' = "loop"
    /\ UNCHANGED <<maxIterations, activeProvider, tools, request, backend,
                   history, userMessage, iterations, result, toolOutputs,
                   completed, responses, calls, reply, updatedHistory,
                   semanticMemory, systemPrompt, searchOutcome, extractions>>

\* Promise.all settles: rejected if a dispatch raised, else the tool
\* messages are pushed and the loop goes round
BatchSettles ==
    /\ pc = "EXECUTING_TOOLS"
    /\ \A i \in 1..Len(toolOutputs) : ~IsNull(toolOutputs[i])
    /\ IF \E i \in 1..Len(toolOutputs) : toolOutputs[i][1].threw
       THEN /\ pc' = "failed"
            /\ UNCHANGED messages
       ELSE /\ messages' = messages \o
                   ToolResults(result.toolCalls[1], toolOutputs, completed)
            /\ pc' = "loop"
    /\ UNCHANGED <<maxIterations, activeProvider, tools, request, backend, history, userMessage,
                   iterations, result, toolOutputs, completed, responses,
                   calls, reply, updatedHistory, semanticMemory, systemPrompt,
                   searchOutcome, extractions>>

\* the loop condition fails: the fixed warning is returned
MaxIterationsReached ==
    /\ pc = "loop"
    /\ ~LoopGuard(iterations, maxIterations)
    /\ reply' = MaxIterationsReply
    /\ updatedHistory' = UpdatedHistory(messages)
    /\ pc' = "MAX_ITER_EXCEEDED"
    /\ UNCHANGED <<maxIterations, activeProvider, tools, request, backend, history, userMessage,
                   messages, iterations, result, toolOutputs, completed,
                   responses, calls, semanticMemory, systemPrompt,
                   searchOutcome, extractions>>

\* ------------------------------------------------------ JSON of a message

EncodeToolCall(tc) ==
    JObject(<<JMember("id", JString(tc.id)),
              JMember("type", JString(tc.type)),
              JMember("function",
                      JObject(<<JMember("name", JString(tc.function.name)),
                                JMember("arguments",
                                        JString(tc.function.arguments))>>))>>)

DecodeToolCall(j) ==
    [id |-> MemberOf(j, "id").s,
     type |-> MemberOf(j, "type").s,
     function |-> [name |-> MemberOf(MemberOf(j, "function"), "name").s,
                   arguments |->
                       MemberOf(MemberOf(j, "function"), "arguments").s]]

\* the properties of a message, in the order they are written
MessageKeys == <<"role", "content", "tool_calls", "tool_call_id">>

EncodeField(m, k) ==
    CASE k = "content" ->
            IF IsNull(m.content) THEN JNull ELSE JString(m.content[1])
      [] k = "tool_calls" ->
            JArray([i \in 1..Len(m.tool_calls) |-> EncodeToolCall(m.tool_calls[i])])
      [] k = "tool_call_id" -> JString(m.tool_call_id)
      [] OTHER -> JString(m.role)

DecodeField(k, v) ==
    CASE k = "content" -> IF v.t = "null" THEN Null ELSE Some(v.s)
      [] k = "tool_calls" ->
            [i \in 1..Len(v.items) |-> DecodeToolCall(v.items[i])]
      [] OTHER -> v.s

\* JSON.stringify(msg)
JSONStringifyMessage(m) ==
    LET Present(k) == k \in DOMAIN m
        keys == SelectSeq(MessageKeys, Present)
    IN JObject([i \in 1..Len(keys) |-> JMember(keys[i], EncodeField(m, keys[i]))])

\* JSON.parse(r.raw_json) as ChatCompletionMessageParam
JSONParseMessage(j) ==
    [k \in {j.items[i].key : i \in 1..Len(j.items)} |->
        DecodeField(k, MemberOf(j, k))]

\* ------------------------------------------------- the conversation store
\* db is what the SQLite file durably holds: messages and notes in id
\* order, core_memories in rowid order, setup_state per chat.

VARIABLES
    db,      \* [messages, notes, core_memories, setup_state]
    txn,     \* the messages table as the open transaction sees it, or Null
    save,    \* where saveHistory stands: [pc, chatId, messages, i, before, repeat]
    lastOp   \* log: the last store operation that completed

storeVars == <<db, txn, save, lastOp>>

Chats == {1, 2}

\* the row stmtInsertMsg writes for msg
MessageRow(chatId, msg) ==
    [chat_id |-> chatId,
     role |-> msg.role,
     content |-> IF ~IsNull(msg.content) THEN msg.content[1] ELSE "\"\"",
     raw_json |-> Some(JSONStringifyMessage(msg))]

\* a row written before the raw_json column was added
LegacyRow(chatId, role, content) ==
    [chat_id |-> chatId, role |-> role, content |-> content, raw_json |-> Null]

\* a delete statement that removes nothing
DeleteNoRows(rows, chatId) == rows

\* stmtDeleteMsgs.run(chatId)
DeleteRows(rows, chatId) ==
    LET Keep(r) == r.chat_id # chatId IN SelectSeq(rows, Keep)

\* an insert statement that files every row under the first chat
InsertRowFirstChat(rows, chatId, msg) == Append(rows, MessageRow(1, msg))

\* stmtInsertMsg.run(chatId, msg.role, content, rawJson): the new row gets
\* the largest id
InsertRow(rows, chatId, msg) == Append(rows, MessageRow(chatId, msg))

\* every statement durable as soon as it has run (no transaction)
DurableAutocommit(committed, working) == working

\* db.transaction: what the file durably holds once a statement of the open
\* transaction has run -- the committed rows, until COMMIT
DurableInTransaction(committed, working) == committed

\* loadHistory reading the role and content columns only
LoadHistoryFromColumns(database, chatId) ==
    LET Mine(r) == r.chat_id = chatId
        rows == SelectSeq(database.messages, Mine)
    IN [i \in 1..Len(rows) |->
           [role |-> rows[i].role, content |-> Some(rows[i].content)]]

\* loadHistory(chatId) on the database
LoadHistory(database, chatId) ==
    LET Mine(r) == r.chat_id = chatId
        rows == SelectSeq(database.messages, Mine)
    IN [i \in 1..Len(rows) |->
           IF ~IsNull(rows[i].raw_json)
           THEN JSONParseMessage(rows[i].raw_json[1])
           ELSE [role |-> rows[i].role, content |-> Some(rows[i].content)]]

\* a deleteHistory that wipes the notes as well
DeleteHistoryAndNotes(database, chatId) ==
    [database EXCEPT !.messages = DeleteRows(@, chatId), !.notes = <<>>]

\* deleteHistory(chatId)
DeleteHistory(database, chatId) ==
    [database EXCEPT !.messages = DeleteRows(@, chatId)]

\* lower(title) on the titles the model draws
Lower(title) == IF title = "Pet" THEN "pet" ELSE title

\* saveNote(title, body): overwrite the note of the same lower(title), else
\* insert
SaveNoteRows(notes, title, body) ==
    IF \E i \in 1..Len(notes) : Lower(notes[i].title) = Lower(title)
    THEN LET i == CHOOSE n \in 1..Len(notes) :
                      Lower(notes[n].title) = Lower(title)
         IN [notes EXCEPT ![i].body = body]
    ELSE Append(notes, [title |-> title, body |-> body])

\* setCoreMemory(key, label, value): INSERT ... ON CONFLICT(key) DO UPDATE
UpsertCoreMemory(rows, key, label, value) ==
    IF \E i \in 1..Len(rows) : rows[i].key = key
    THEN LET i == CHOOSE n \in 1..Len(rows) : rows[n].key = key
         IN [rows EXCEPT ![i].label = label, ![i].value = value]
    ELSE Append(rows, [key |-> key, label |-> label, value |-> value])

\* well-formed message lists to save
ToolTurn ==
    <<UserMessage("hi"),
      [role |-> "assistant", content |-> Null,
       tool_calls |-> <<WireToolCall("call_a", "echo", GoodArgs)>>],
      ToolMessage("call_a", "Echo: a"),
      AssistantText("done")>>
MessageLists ==
    { <<>>, <<UserMessage("hi"), AssistantText("hello")>>, ToolTurn }

NoSave ==
    [pc |-> "idle", chatId |-> 0, messages |-> <<>>, i |-> 0,
     before |-> <<>>, repeat |-> FALSE]
NoOp == [op |-> "none", chatId |-> 0, messages |-> <<>>]

StoreInit ==
    /\ db \in {[messages |-> rows, notes |-> <<>>, core_memories |-> core,
                setup_state |-> [c \in Chats |-> Null]] :
                 rows \in { <<>>, <<LegacyRow(1, "user", "old")>> },
                 core \in { <<>>, <<[key |-> "owner_name",
                                      label |-> "Owner's name",
                                      value |-> "Ann"]>> }}
    /\ txn = Null
    /\ save = NoSave
    /\ lastOp = NoOp

\* saveHistory(chatId, msgs) is entered: persist() begins the transaction
SaveHistoryBegin(chatId, msgs) ==
    /\ save.pc = "idle"
    /\ txn' = Some(db.messages)
    /\ save' = [pc |-> "deleting", chatId |-> chatId, messages |-> msgs,
                i |-> 1, before |-> LoadHistory(db, chatId),
                repeat |-> lastOp = [op |-> "save", chatId |-> chatId,
                                     messages |-> msgs]]
    /\ UNCHANGED <<db, lastOp>>

\* stmtDeleteMsgs.run(chatId) inside the transaction
SaveHistoryDelete ==
    /\ save.pc = "deleting"
    /\ LET working == DeleteRows(txn[1], save.chatId)
       IN /\ txn' = Some(working)
          /\ db' = [db EXCEPT !.messages = DurableInTransaction(@, working)]
    /\ save' = [save EXCEPT !.pc = "inserting"]
    /\ UNCHANGED lastOp

\* stmtInsertMsg.run for message i inside the transaction
SaveHistoryInsert ==
    /\ save.pc = "inserting"
    /\ save.i <= Len(save.messages)
    /\ LET working == InsertRow(txn[1], save.chatId, save.messages[save.i])
       IN /\ txn' = Some(working)
          /\ db' = [db EXCEPT !.messages = DurableInTransaction(@, working)]
    /\ save' = [save EXCEPT !.i = @ + 1]
    /\ UNCHANGED lastOp

\* stmtInsertMsg.run raises: the transaction is rolled back and the error
\* leaves saveHistory
SaveHistoryInsertFails ==
    /\ save.pc = "inserting"
    /\ save.i <= Len(save.messages)
    /\ txn' = Null
    /\ save' = [save EXCEPT !.pc = "failed"]
    /\ lastOp' = NoOp
    /\ UNCHANGED db

\* the function of the transaction returned: COMMIT
SaveHistoryCommit ==
    /\ save.pc = "inserting"
    /\ save.i > Len(save.messages)
    /\ db' = [db EXCEPT !.messages = txn[1]]
    /\ txn' = Null
    /\ save' = [save EXCEPT !.pc = "saved"]
    /\ lastOp' = [op |-> "save", chatId |-> save.chatId,
                  messages |-> save.messages]

\* the process dies inside the transaction: the file keeps what was durable
Crash ==
    /\ save.pc \in {"deleting", "inserting"}
    /\ txn' = Null
    /\ save' = [save EXCEPT !.pc = "crashed"]
    /\ lastOp' = NoOp
    /\ UNCHANGED db

\* saveHistory has returned or raised, or the process was restarted
SaveHistoryEnd ==
    /\ save.pc \in {"saved", "failed", "crashed"}
    /\ save' = NoSave
    /\ UNCHANGED <<db, txn, lastOp>>

\* /clear: deleteHistory(chatId)
ClearCommand(chatId) ==
    /\ save.pc = "idle"
    /\ db' = DeleteHistory(db, chatId)
    /\ lastOp' = [op |-> "clear", chatId |-> chatId, messages |-> <<>>]
    /\ UNCHANGED <<txn, save>>

\* saveNote(title, body)
SaveNote(title, body) ==
    /\ save.pc = "idle"
    /\ db' = [db EXCEPT !.notes = SaveNoteRows(@, title, body)]
    /\ lastOp' = NoOp
    /\ UNCHANGED <<txn, save>>

\* setCoreMemory(key, label, value)
SetCoreMemory(key, label, value) ==
    /\ save.pc = "idle"
    /\ db' = [db EXCEPT !.core_memories = UpsertCoreMemory(@, key, label, value)]
    /\ lastOp' = NoOp
    /\ UNCHANGED <<txn, save>>

\* setSetupStep(chatId, step)
SetSetupStep(chatId, step) ==
    /\ save.pc = "idle"
    /\ db' = [db EXCEPT !.setup_state[chatId] = Some(step)]
    /\ lastOp' = NoOp
    /\ UNCHANGED <<txn, save>>

\* clearSetupState(chatId)
ClearSetupState(chatId) ==
    /\ save.pc = "idle"
    /\ db' = [db EXCEPT !.setup_state[chatId] = Null]
    /\ lastOp' = NoOp
    /\ UNCHANGED <<txn, save>>

\* ------------------------------------------- background fact extraction
\* How the chat.completions.create of an extraction may end: it rejects, or
\* it resolves to a content that does not parse (malformed), or to one that
\* parses to facts; a fact's title may be something other than a string.

ExtractionResults ==
    {[rejected |-> TRUE, malformed |-> FALSE, facts |-> <<>>],
     [rejected |-> FALSE, malformed |-> TRUE, facts |-> <<>>],
     [rejected |-> FALSE, malformed |-> FALSE,
      facts |-> <<[title |-> "pet", body |-> "cat", isString |-> TRUE],
                  [title |-> "", body |-> "x", isString |-> TRUE]>>],
     [rejected |-> FALSE, malformed |-> FALSE,
      facts |-> <<[title |-> "pet", body |-> "cat", isString |-> TRUE],
                  [title |-> "5", body |-> "x", isString |-> FALSE]>>]}

\* the loop over the facts: a fact with an empty title or body is skipped,
\* title.trim() raises on a title that is no string, saveNote else
RECURSIVE SaveFacts(_, _)
SaveFacts(notes, facts) ==
    IF Len(facts) = 0 THEN [threw |-> FALSE, notes |-> notes]
    ELSE LET fact == Head(facts) IN
         IF fact.title = "" \/ fact.body = ""
         THEN SaveFacts(notes, Tail(facts))
         ELSE IF ~fact.isString
              THEN [threw |-> TRUE, notes |-> notes]
              ELSE SaveFacts(SaveNoteRows(notes, fact.title, fact.body),
                             Tail(facts))

\* extractAndSaveFacts without its try/catch
ExtractAndSaveFactsNoCatch(notes, o) ==
    IF o.rejected \/ o.malformed
    THEN [threw |-> TRUE, notes |-> notes]
    ELSE SaveFacts(notes, SubSeq(o.facts, 1, IF Len(o.facts) < 5
                                             THEN Len(o.facts) ELSE 5))

\* extractAndSaveFacts from the settling of its request on: whatever raises
\* is caught and logged
ExtractAndSaveFacts(notes, o) ==
    IF o.rejected \/ o.malformed
    THEN [threw |-> FALSE, notes |-> notes]
    ELSE [SaveFacts(notes, SubSeq(o.facts, 1, IF Len(o.facts) < 5
                                              THEN Len(o.facts) ELSE 5))
            EXCEPT !.threw = FALSE]

\* the request of extraction n settles as o and extractAndSaveFacts runs to
\* its end
ExtractionSettles(n, o) ==
    /\ n \in 1..Len(extractions)
    /\ extractions[n].pc = "running"
    /\ save.pc = "idle"
    /\ LET e == ExtractAndSaveFacts(db.notes, o)
       IN /\ db' = [db EXCEPT !.notes = e.notes]
          /\ extractions' =
                 [extractions EXCEPT ![n].pc = IF e.threw THEN "rejected"
                                              ELSE "settled"]
    /\ UNCHANGED <<maxIterations, activeProvider, tools, request, backend, pc, history, userMessage,
                   messages, iterations, result, toolOutputs, completed,
                   responses, calls, reply, updatedHistory, semanticMemory,
                   systemPrompt, searchOutcome, txn, save, lastOp>>

\* ------------------------------------------------ the bot's text handler
\* bot.start() polls and handles one update at a time: the handler of an
\* update has returned before the next update is handled.

VARIABLES
    handler,   \* the update being handled: [pc, chatId, save, from]
    sent,      \* log: the replies sent, each [chatId, kind, text]
    updates,   \* log: the number of updates handled so far
    handlers   \* per update, its handler seen from the store:
               \* [pc, chatId, loaded]

botVars == <<handler, sent, updates, handlers>>

NoHandler == [pc |-> "idle", chatId |-> 0, save |-> "none", from |-> Null]

\* config.ALLOWED_USER_ID, and the id of some other Telegram user
ALLOWED_USER_ID == 7
OtherUserId == 8

\* ctx.from?.id of an update: absent, the owner's, or another user's
Senders == {Null, Some(ALLOWED_USER_ID), Some(OtherUserId)}

\* a whitelist that lets every update through
IsAuthorizedAnyone(from) == TRUE

\* isAuthorized(ctx), from being ctx.from?.id
IsAuthorized(from) == ~IsNull(from) /\ from[1] = ALLOWED_USER_ID

\* the reply of the handler's catch (its leading sign left out)
FailureReply == "Something went wrong on my end. Check the logs and try again."

\* what an OpenAI-compatible, Anthropic or Gemini backend answers while the
\* bot is followed over several updates
BotResponses(id) ==
    CASE id = "anthropic" ->
             { <<[type |-> "text", text |-> "hello"]>>,
               <<[type |-> "text", text |-> "thinking"],
                 [type |-> "tool_use", id |-> "call_b", name |-> "echo",
                  input |-> [text |-> "a"]]>> }
      [] id = "google" ->
             { [text |-> "hello"],
               [functionCalls |-> <<[name |-> "echo", args |-> [text |-> "a"]],
                                    [name |-> "foo_bar", args |-> EmptyObject]>>,
                text |-> ""] }
      [] OTHER ->
             { [role |-> "assistant", content |-> Some("hello")],
               [role |-> "assistant", content |-> Null],
               [role |-> "assistant", content |-> Null,
                tool_calls |-> <<WireToolCall("call_a", "echo", GoodArgs)>>] }

\* a transport that hands an update to its handler while the handler of
\* another update is still awaiting
MayDispatchAlways(h) == TRUE

\* the handler of update n may start: the handler of update n - 1 has
\* returned
MayDispatch(h) == h.pc = "idle"

\* a handler whose try block goes on to saveHistory when the turn raised
AfterTurnSavesAnyway(turnPc) == "persist"

\* where the handler goes when the awaited runAgentTurn settles: on to
\* saveHistory when it returned, to the catch when it raised
AfterTurn(turnPc) == IF turnPc = "failed" THEN "caught" ELSE "persist"

\* a handler that goes on to ctx.reply whether or not saveHistory raised
AfterSaveAlwaysReplies(savePc) == "saved"

\* where the handler goes when saveHistory settles: on to ctx.reply when it
\* returned, to the catch when it raised
AfterSave(savePc) == IF savePc = "saved" THEN "saved" ELSE "caught"

\* the whitelist middleware returns without calling next(): the update
\* reaches no handler
Whitelist(from, chatId) ==
    /\ MayDispatch(handler)
    /\ ~IsAuthorized(from)
    /\ handler' = [pc |-> "dropped", chatId |-> chatId, save |-> "none",
                   from |-> from]
    /\ UNCHANGED <<turnVars, storeVars, sent, updates, handlers>>

\* message:text for chatId passed on by the whitelist, no setup in
\* progress: loadHistory, then runAgentTurn is called
TextMessage(from, chatId, text) ==
    /\ MayDispatch(handler)
    /\ IsAuthorized(from)
    /\ updates < MaxUpdates
    /\ IsNull(db.setup_state[chatId])
    /\ RunAgentTurn(LoadHistory(db, chatId), text, db.core_memories)
    /\ handler' = [pc |-> "turn", chatId |-> chatId, save |-> "none",
                   from |-> from]
    /\ updates' = updates + 1
    /\ UNCHANGED <<sent, handlers, storeVars>>

\* the awaited runAgentTurn settled: saveHistory(chatId, updatedHistory) is
\* entered, or the catch
TurnSettles ==
    /\ handler.pc = "turn"
    /\ pc \in {"DONE", "MAX_ITER_EXCEEDED", "failed"}
    /\ IF AfterTurn(pc) = "persist"
       THEN /\ SaveHistoryBegin(handler.chatId, updatedHistory)
            /\ handler' = [handler EXCEPT !.pc = "saving"]
       ELSE /\ handler' = [handler EXCEPT !.pc = "caught"]
            /\ UNCHANGED storeVars
    /\ UNCHANGED <<turnVars, sent, updates, handlers>>

\* saveHistory returned or raised
SaveSettles ==
    /\ handler.pc = "saving"
    /\ save.pc \in {"saved", "failed"}
    /\ handler' = [handler EXCEPT !.pc = AfterSave(save.pc),
                                  !.save = save.pc]
    /\ SaveHistoryEnd
    /\ UNCHANGED <<turnVars, sent, updates, handlers>>

\* ctx.reply(reply) resolves, or rejects into the catch (text-to-speech off)
SendReply(ok) ==
    /\ handler.pc = "saved"
    /\ IF ok
       THEN /\ sent' = Append(sent, [chatId |-> handler.chatId,
                                     kind |-> "reply", text |-> reply])
            /\ handler' = [handler EXCEPT !.pc = "done"]
       ELSE /\ handler' = [handler EXCEPT !.pc = "caught"]
            /\ UNCHANGED sent
    /\ UNCHANGED <<turnVars, storeVars, updates, handlers>>

\* the catch: the failure reply is sent
CatchError ==
    /\ handler.pc = "caught"
    /\ sent' = Append(sent, [chatId |-> handler.chatId, kind |-> "failure",
                             text |-> FailureReply])
    /\ handler' = [handler EXCEPT !.pc = "done"]
    /\ UNCHANGED <<turnVars, storeVars, updates, handlers>>

\* the handler returns: the turn's locals are gone, the extractions started
\* go on
HandlerEnds ==
    /\ handler.pc \in {"done", "dropped"}
    /\ handler' = NoHandler
    /\ pc' = "idle"
    /\ history' = <<>>
    /\ userMessage' = ""
    /\ messages' = <<>>
    /\ iterations' = 0
    /\ result' = NoResult
    /\ toolOutputs' = <<>>
    /\ completed' = <<>>
    /\ responses' = <<>>
    /\ calls' = 0
    /\ reply' = ""
    /\ updatedHistory' = <<>>
    /\ systemPrompt' = ""
    /\ searchOutcome' = NoSearch
    /\ request' = Null
    /\ backend' = Null
    /\ UNCHANGED <<maxIterations, activeProvider, tools, semanticMemory, extractions,
                   storeVars, sent, updates, handlers>>

\* the handler of update u is entered for chatId and reads the chat's
\* history; it then awaits the turn
Dispatch(u, chatId) ==
    /\ \A v \in DOMAIN handlers : MayDispatch(handlers[v])
    /\ handlers[u].pc = "idle"
    /\ save.pc = "idle"
    /\ updates < MaxUpdates
    /\ handlers' = [handlers EXCEPT ![u] =
                       [pc |-> "turn", chatId |-> chatId,
                        loaded |-> LoadHistory(db, chatId)]]
    /\ updates' = updates + 1
    /\ UNCHANGED <<handler, sent, storeVars>>

\* the turn of update u returned the loaded history followed by its own
\* messages: saveHistory is entered
HandlerSaves(u, text) ==
    /\ handlers[u].pc = "turn"
    /\ SaveHistoryBegin(handlers[u].chatId,
                        handlers[u].loaded \o
                            <<UserMessage(text), AssistantText("hello")>>)
    /\ handlers' = [handlers EXCEPT ![u].pc = "saving"]
    /\ UNCHANGED <<handler, sent, updates>>

\* the handler of update u returns: its turn raised, or saveHistory settled
HandlerReturns(u) ==
    /\ \/ handlers[u].pc = "turn" /\ save.pc = "idle" /\ UNCHANGED storeVars
       \/ handlers[u].pc = "saving" /\ SaveHistoryEnd
    /\ handlers' = [handlers EXCEPT ![u] =
                       [pc |-> "idle", chatId |-> 0, loaded |-> <<>>]]
    /\ UNCHANGED <<handler, sent, updates>>

BotInit ==
    /\ handler = NoHandler
    /\ sent = <<>>
    /\ updates = 0
    /\ handlers = [u \in 1..MaxUpdates |->
                      [pc |-> "idle", chatId |-> 0, loaded |-> <<>>]]

\* ------------------------------------------------ the provider registry

VARIABLES
    provider,    \* _provider: Null, or the instance built for (providerId, model)
    activeSpec,  \* _activeSpec
    apiKeys,     \* the provider ids whose API key the configuration holds
    lastCall     \* the last call into the registry, what it returned, and
                 \* the arguments of the last switch that returned null

registryVars == <<provider, activeSpec, apiKeys, lastCall>>

ACTIVE_LLM_KEY == "active_llm"

\* the models of each provider id, the default first
PROVIDER_CATALOG ==
    [openai |-> [name |-> "OpenAI",
                 models |-> <<"gpt-4o", "gpt-4.1", "gpt-4.1-mini", "gpt-5.1",
                              "gpt-5.2", "gpt-5.1-mini">>],
     anthropic |-> [name |-> "Anthropic",
                    models |-> <<"claude-sonnet-4-5", "claude-sonnet-4">>],
     google |-> [name |-> "Google Gemini",
                 models |-> <<"gemini-2.5-flash", "gemini-2.5-pro",
                              "gemini-2.5-flash-lite">>],
     groq |-> [name |-> "Groq",
               models |-> <<"llama-3.3-70b-versatile", "llama-3.1-8b-instant",
                            "mixtral-8x7b-32768">>]]

\* buildProvider(providerId, model) under the configured keys: the instance,
\* or the error thrown. OPENAI_API_KEY is always configured; the other keys
\* default to the empty string
BuildProvider(providerId, model, keys) ==
    CASE providerId = "openai" ->
             [threw |-> FALSE,
              provider |-> [providerId |-> providerId, model |-> model]]
      [] providerId = "anthropic" ->
             IF providerId \notin keys
             THEN [threw |-> TRUE, error |-> "Error: ANTHROPIC_API_KEY is not set"]
             ELSE [threw |-> FALSE,
                   provider |-> [providerId |-> providerId, model |-> model]]
      [] providerId = "google" ->
             IF providerId \notin keys
             THEN [threw |-> TRUE, error |-> "Error: GOOGLE_API_KEY is not set"]
             ELSE [threw |-> FALSE,
                   provider |-> [providerId |-> providerId, model |-> model]]
      [] providerId = "groq" ->
             IF providerId \notin keys
             THEN [threw |-> TRUE, error |-> "Error: GROQ_API_KEY is not set"]
             ELSE [threw |-> FALSE,
                   provider |-> [providerId |-> providerId, model |-> model]]
      [] OTHER ->
             [threw |-> TRUE,
              error |-> "Error: Unknown provider: \"" \o providerId \o "\""]

\* loadActiveSpec() over the core memories: the value of the active_llm
\* entry split at its first colon, when both parts are non-empty; else
\* openai with config.OPENAI_MODEL (its default)
LoadActiveSpec(coreMemories) ==
    LET hits == {i \in 1..Len(coreMemories) : coreMemories[i].key = ACTIVE_LLM_KEY}
        default == [providerId |-> "openai", model |-> "gpt-4o"]
    IN IF hits = {} THEN default
       ELSE LET value == coreMemories[CHOOSE i \in hits : \A j \in hits : i <= j].value
                colons == {i \in 1..Len(value) : SubSeq(value, i, i) = ":"}
                cut == IF colons = {} THEN Len(value) + 1
                       ELSE CHOOSE i \in colons : \A j \in colons : i <= j
                providerId == SubSeq(value, 1, cut - 1)
                model == SubSeq(value, cut + 1, Len(value))
            IN IF providerId # "" /\ model # ""
               THEN [providerId |-> providerId, model |-> model]
               ELSE default

\* getActiveProviderLabel(): the catalog name, or the id when the catalog
\* has none, then the model (the separator is a middle dot in the source)
GetActiveProviderLabel(spec) ==
    (IF spec.providerId \in DOMAIN PROVIDER_CATALOG
     THEN PROVIDER_CATALOG[spec.providerId].name
     ELSE spec.providerId) \o " . " \o spec.model

\* the registry when the module is loaded
RegistryInit ==
    /\ provider = Null
    /\ activeSpec = LoadActiveSpec(db.core_memories)
    /\ apiKeys \in {{"openai"}, {"openai", "google"}, ProviderIds}
    /\ lastCall = [op |-> "none", providerId |-> "", model |-> "",
                   result |-> Null, chosen |-> Null]

\* the registry during a turn: the instance getActiveProvider() gave the
\* loop, built for the default model of its id
RegistryServing ==
    LET spec == [providerId |-> activeProvider,
                 model |-> PROVIDER_CATALOG[activeProvider].models[1]]
    IN /\ provider = Some(spec)
       /\ activeSpec = spec
       /\ apiKeys = ProviderIds
       /\ lastCall = [op |-> "getActiveProvider", providerId |-> "", model |-> "",
                      result |-> Null, chosen |-> Null]

\* switchProvider(providerId, model); writeThrows: the statement of
\* setCoreMemory raises (the database is locked, full or read-only)
SwitchProvider(providerId, model, writeThrows) ==
    LET catalog == providerId \in DOMAIN PROVIDER_CATALOG \cup {"toString"}
        built == BuildProvider(providerId, model, apiKeys)
        call == [op |-> "switchProvider", providerId |-> providerId,
                 model |-> model, result |-> Null,
                 chosen |-> lastCall.chosen]
    IN /\ save.pc = "idle"
       /\ IF ~catalog
          THEN /\ lastCall' = [call EXCEPT !.result =
                                  Some("Unknown provider \"" \o providerId
                                       \o "\". Available: openai, anthropic, google, groq")]
               /\ UNCHANGED <<provider, activeSpec, storeVars>>
          ELSE IF built.threw
          THEN /\ lastCall' = [call EXCEPT !.result = Some(built.error)]
               /\ UNCHANGED <<provider, activeSpec, storeVars>>
          ELSE /\ provider' = Some(built.provider)
               /\ activeSpec' = [providerId |-> providerId, model |-> model]
               /\ IF writeThrows
                  THEN /\ lastCall' = [call EXCEPT !.result =
                                          Some("SqliteError: database is locked")]
                       /\ UNCHANGED storeVars
                  ELSE /\ SetCoreMemory(ACTIVE_LLM_KEY, "Active LLM",
                                        providerId \o ":" \o model)
                       /\ lastCall' = [call EXCEPT !.result = Null,
                                          !.chosen = Some([providerId |-> providerId,
                                                           model |-> model])]
       /\ UNCHANGED apiKeys

\* getActiveProvider(): builds the instance for _activeSpec when there is
\* none yet; a throw of buildProvider goes to the caller
GetActiveProvider ==
    LET built == BuildProvider(activeSpec.providerId, activeSpec.model, apiKeys)
        call == [op |-> "getActiveProvider", providerId |-> "", model |-> "",
                 result |-> Null, chosen |-> lastCall.chosen]
    IN /\ IF ~IsNull(provider)
          THEN /\ lastCall' = [call EXCEPT !.result = Null]
               /\ UNCHANGED provider
          ELSE IF built.threw
          THEN /\ lastCall' = [call EXCEPT !.result = Some(built.error)]
               /\ UNCHANGED provider
          ELSE /\ lastCall' = [call EXCEPT !.result = Null]
               /\ provider' = Some(built.provider)
       /\ UNCHANGED <<activeSpec, apiKeys, storeVars>>

\* the process ends and starts again: the module is loaded anew
Restart ==
    /\ save.pc = "idle"
    /\ provider' = Null
    /\ activeSpec' = LoadActiveSpec(db.core_memories)
    /\ lastCall' = [op |-> "restart", providerId |-> "", model |-> "",
                    result |-> Null, chosen |-> lastCall.chosen]
    /\ UNCHANGED <<apiKeys, storeVars>>

\* ------------------------------------- startup, soul.md and the setup flow

\* main(): loadSkills() caches the skill files found, the MCP servers are
\* initialised and the bot is started; the base prompt built when agent.ts
\* was evaluated is not touched
Main(files) ==
    /\ startup = "imported"
    /\ skills' = Some(files)
    /\ startup' = "started"
    /\ UNCHANGED <<SOUL, BASE_SYSTEM_PROMPT>>

\* the dispatchTool of call i of the batch settles, the call being
\* soul_update(mode, content): soul.md is written and reloadSoul() reads it
\* back and rebuilds the base prompt (the text returned is given without
\* its leading check mark)
SoulUpdateCompletes(i, mode, content) ==
    /\ pc = "EXECUTING_TOOLS"
    /\ i \in 1..Len(toolOutputs)
    /\ IsNull(toolOutputs[i])
    /\ result.toolCalls[1][i].name = "soul_update"
    /\ result.toolCalls[1][i].arguments =
           "{\"mode\":\"" \o mode \o "\",\"content\":\"" \o content \o "\"}"
    /\ LET updated == IF mode = "replace" THEN content
                      ELSE IF SOUL # "" THEN SOUL \o "\n\n" \o content
                      ELSE content
       IN /\ SOUL' = updated
          /\ BASE_SYSTEM_PROMPT' = BuildBaseSystemPrompt(updated, skills)
          /\ toolOutputs' =
                 [toolOutputs EXCEPT ![i] =
                     Some(Returned("soul.md " \o (IF mode = "replace" THEN "replaced"
                                                  ELSE "updated")
                                       \o " (" \o ToString(Len(updated)) \o " bytes). "
                                       \o "The new personality is active immediately."))]
    /\ completed' = Append(completed, i)
    /\ UNCHANGED <<maxIterations, activeProvider, tools, request, backend, pc,
                   history, userMessage, messages, iterations, result,
                   responses, calls, reply, updatedHistory, semanticMemory,
                   systemPrompt, searchOutcome, extractions, skills, startup>>

\* /setup is no longer sent once this many replies have been sent
MaxSent == 3

\* file_append is no longer called on a file of this many bytes
MaxFileLen == 1

\* the key and the label of each setup question
SETUP_STEPS ==
    <<[key |-> "owner_name", label |-> "Owner's name"],
      [key |-> "owner_work", label |-> "What they do"],
      [key |-> "owner_location", label |-> "Where they're based"],
      [key |-> "owner_goals", label |-> "Current goals and projects"],
      [key |-> "owner_interests", label |-> "Topics they're into"],
      [key |-> "owner_comms", label |-> "Communication style preference"],
      [key |-> "owner_callme", label |-> "What you want to be called"],
      [key |-> "owner_people", label |-> "Important people to know about"]>>

\* a /setup that leaves a flow in progress where it stands
StartSetupOnce(from, chatId) ==
    /\ MayDispatch(handler)
    /\ IsAuthorized(from)
    /\ Len(sent) < MaxSent
    /\ IF IsNull(db.setup_state[chatId])
       THEN SetSetupStep(chatId, 0)
       ELSE SetSetupStep(chatId, db.setup_state[chatId][1])
    /\ sent' = Append(sent, [chatId |-> chatId, kind |-> "setup",
                             text |-> "[1/" \o ToString(Len(SETUP_STEPS)) \o "]"])
    /\ UNCHANGED <<turnVars, handler, updates, handlers>>

\* /setup: startSetup sets the step to 0 and sends the first question
StartSetup(from, chatId) ==
    /\ MayDispatch(handler)
    /\ IsAuthorized(from)
    /\ Len(sent) < MaxSent
    /\ SetSetupStep(chatId, 0)
    /\ sent' = Append(sent, [chatId |-> chatId, kind |-> "setup",
                             text |-> "[1/" \o ToString(Len(SETUP_STEPS)) \o "]"])
    /\ UNCHANGED <<turnVars, handler, updates, handlers>>

\* a reply that is recorded by the flow and then handed to the agent as well
HandleSetupReplyThenTurn(from, chatId, text) ==
    /\ MayDispatch(handler)
    /\ IsAuthorized(from)
    /\ save.pc = "idle"
    /\ ~IsNull(db.setup_state[chatId])
    /\ db.setup_state[chatId][1] + 1 \in DOMAIN SETUP_STEPS
    /\ db' = [db EXCEPT !.setup_state[chatId] =
                            IF db.setup_state[chatId][1] + 1 >= Len(SETUP_STEPS)
                            THEN Null ELSE Some(db.setup_state[chatId][1] + 1)]
    /\ lastOp' = NoOp
    /\ RunAgentTurn(LoadHistory(db, chatId), text, db.core_memories)
    /\ handler' = [pc |-> "turn", chatId |-> chatId, save |-> "none",
                   from |-> from]
    /\ UNCHANGED <<txn, save, sent, updates, handlers>>

\* String.prototype.trim, for the blanks the texts of the model hold
Trim(s) ==
    LET first == {i \in 1..Len(s) : SubSeq(s, i, i) # " "}
    IN IF first = {} THEN ""
       ELSE SubSeq(s, CHOOSE i \in first : \A j \in first : i <= j,
                   CHOOSE i \in first : \A j \in first : i >= j)

\* message:text for chatId while a setup flow is in progress:
\* handleSetupReply stores the trimmed text under the key of the current
\* step unless it is "skip" in any case, then advances the step or, after
\* the last question, clears it; the message is consumed
HandleSetupReply(from, chatId, text) ==
    LET userText == Trim(text)
        upper == "ABCDEFGHIJKLMNOPQRSTUVWXYZ"
        lower == "abcdefghijklmnopqrstuvwxyz"
        LowerChar(c) == IF \E k \in 1..Len(upper) : SubSeq(upper, k, k) = c
                        THEN SubSeq(lower,
                                    CHOOSE k \in 1..Len(upper) : SubSeq(upper, k, k) = c,
                                    CHOOSE k \in 1..Len(upper) : SubSeq(upper, k, k) = c)
                        ELSE c
        lowered == Join([i \in 1..Len(userText) |-> LowerChar(SubSeq(userText, i, i))])
        currentStep == db.setup_state[chatId][1]
        stepDef == SETUP_STEPS[currentStep + 1]
        nextStep == currentStep + 1
        answered == IF lowered # "skip"
                    THEN UpsertCoreMemory(db.core_memories, stepDef.key,
                                          stepDef.label, userText)
                    ELSE db.core_memories
    IN /\ MayDispatch(handler)
       /\ IsAuthorized(from)
       /\ save.pc = "idle"
       /\ ~IsNull(db.setup_state[chatId])
       /\ currentStep + 1 \in DOMAIN SETUP_STEPS
       /\ db' = [db EXCEPT !.core_memories = answered,
                           !.setup_state[chatId] =
                               IF nextStep >= Len(SETUP_STEPS) THEN Null
                               ELSE Some(nextStep)]
       /\ lastOp' = NoOp
       /\ sent' = Append(sent,
                         IF nextStep >= Len(SETUP_STEPS)
                         THEN [chatId |-> chatId, kind |-> "complete",
                               text |-> "Setup complete!"]
                         ELSE [chatId |-> chatId, kind |-> "question",
                               text |-> "[" \o ToString(nextStep + 1) \o "/"
                                            \o ToString(Len(SETUP_STEPS)) \o "]"])
       /\ UNCHANGED <<turnVars, txn, save, handler, updates, handlers>>

\* ------------------------------------------- MCP tools and the file tools

VARIABLES
    mcp,         \* clients: the connected flag of each configured server;
                 \* tools: the McpTool records discovered
    fs,          \* the content of each file on disk
    dispatched   \* the last tool executed: an MCP tool and its outcome, or a
                 \* file tool, its target, result and the paths it accessed

toolVars == <<mcp, fs, dispatched>>

\* String.prototype.split(sep) for a non-empty separator
RECURSIVE SplitOn(_, _)
SplitOn(s, sep) ==
    LET at == {i \in 1..(Len(s) - Len(sep) + 1) :
                  SubSeq(s, i, i + Len(sep) - 1) = sep}
    IN IF at = {} THEN <<s>>
       ELSE LET i == CHOOSE k \in at : \A j \in at : k <= j
            IN <<SubSeq(s, 1, i - 1)>>
                   \o SplitOn(SubSeq(s, i + Len(sep), Len(s)), sep)

\* no MCP server configured, and the disk the file tools start from
ToolsInit ==
    /\ mcp = [clients |-> <<>>, tools |-> {}]
    /\ fs = [p \in {"/app/data/n.txt", "/app/data2/s.txt",
                     "/app/skills/k.md", "/etc/passwd"} |-> "a"]
    /\ dispatched = Null

\* initMcp over the servers cfgs of mcp-servers.json, of which those in
\* failed do not connect: every server gets a client, and discoverTools
\* names each tool listed by a connected server mcp__<server>__<tool>
InitMcp(cfgs, failed, listed) ==
    /\ mcp' = [clients |-> [n \in cfgs |-> n \notin failed],
               tools |-> {[fullName |-> "mcp__" \o n \o "__" \o t,
                           toolName |-> t, serverName |-> n] :
                              n \in cfgs \ failed, t \in listed}]
    /\ UNCHANGED <<fs, dispatched>>

\* callMcpTool(fullName): the server called and the tool name it is given,
\* or the error text returned
CallMcpTool(fullName, clients) ==
    LET Group(g) == /\ Len(g) > 0
                    /\ SubSeq(g, 1, 1) # "_"
                    /\ SubSeq(g, Len(g), Len(g)) # "_"
                    /\ \A i \in 1..(Len(g) - 1) : SubSeq(g, i, i + 1) # "__"
        match == /\ StartsWith(fullName, "mcp__")
                 /\ \E i \in 6..(Len(fullName) - 3) :
                        /\ Group(SubSeq(fullName, 6, i))
                        /\ SubSeq(fullName, i + 1, i + 2) = "__"
        parts == SplitOn(fullName, "__")
        serverName == parts[2]
        toolName == Join([i \in 1..(Len(parts) - 2) |->
                             (IF i > 1 THEN "__" ELSE "") \o parts[i + 2]])
    IN IF ~match
       THEN [error |-> "Error: invalid MCP tool name \"" \o fullName
                           \o "\". Expected format: mcp__<server>__<tool>"]
       ELSE IF Len(parts) < 3 \/ parts[1] # "mcp"
       THEN [error |-> "Error: invalid MCP tool name \"" \o fullName \o "\""]
       ELSE IF serverName \notin DOMAIN clients
       THEN [error |-> "Error: MCP server \"" \o serverName
                           \o "\" is not configured."]
       ELSE IF ~clients[serverName]
       THEN [error |-> "Error: MCP server \"" \o serverName
                           \o "\" is not connected."]
       ELSE [server |-> serverName, tool |-> toolName]

\* the execute of the tool definition buildMcpTools made for mcpTool
McpToolExecute(mcpTool) ==
    /\ mcpTool \in mcp.tools
    /\ dispatched' = Some([name |-> mcpTool.fullName, mcpTool |-> mcpTool,
                            outcome |-> CallMcpTool(mcpTool.fullName, mcp.clients)])
    /\ UNCHANGED <<mcp, fs>>

\* resolveSafe(target) with the process in /app and FILE_ALLOWED_PATHS at
\* its default: path.resolve makes the target absolute and normal, and the
\* path is accepted when it starts with an allowed directory
ResolveSafe(target) ==
    LET RECURSIVE Normal(_, _)
        Normal(rest, acc) ==
            IF rest = <<>> THEN acc
            ELSE Normal(Tail(rest),
                        IF Head(rest) \in {"", "."} THEN acc
                        ELSE IF Head(rest) = ".."
                        THEN SubSeq(acc, 1, Len(acc) - 1)
                        ELSE Append(acc, Head(rest)))
        Resolve(t) ==
            LET segs == Normal(SplitOn(IF StartsWith(t, "/") THEN t
                                       ELSE "/app/" \o t, "/"), <<>>)
            IN IF segs = <<>> THEN "/"
               ELSE Join([i \in 1..Len(segs) |-> "/" \o segs[i]])
        listed == SplitOn("./data,./skills", ",")
        allowed == [i \in 1..Len(listed) |-> Resolve(Trim(listed[i]))]
        abs == Resolve(target)
    IN IF \E i \in 1..Len(allowed) : StartsWith(abs, allowed[i])
       THEN [ok |-> TRUE, abs |-> abs]
       ELSE [ok |-> FALSE,
             reason |-> "Path \"" \o abs \o "\" is outside the allowed directories."]

\* the execute of the file tool name on the path target (the directory of
\* file_list and file_search), with content "b" for a write or an append;
\* accessed are the paths handed to a call of the fs module, and an error
\* such a call raises is returned as text by dispatchTool. The texts
\* returned are given without their leading symbols
FileToolExecute(name, target) ==
    LET check == ResolveSafe(Trim(target))
        abs == check.abs
        isFile == abs \in DOMAIN fs
        below == {p \in DOMAIN fs : StartsWith(p, abs \o "/")}
        Put(text) == [p \in DOMAIN fs \cup {abs} |->
                         IF p = abs THEN text ELSE fs[p]]
        isDir == below # {}
        Done(disk, output, accessed) ==
            /\ fs' = disk
            /\ dispatched' = Some([name |-> name, target |-> target,
                                   result |-> output, accessed |-> accessed])
    IN /\ UNCHANGED mcp
       /\ IF Trim(target) = ""
          THEN Done(fs, "Error: 'path' is required.", {})
          ELSE IF ~check.ok
          THEN Done(fs, check.reason, {})
          ELSE CASE name = "file_read" ->
                        IF isFile
                        THEN Done(fs, abs \o ":\n\n" \o fs[abs], {abs})
                        ELSE IF isDir
                        THEN Done(fs, "\"" \o abs \o "\" is not a file.", {abs})
                        ELSE Done(fs, "File not found: " \o abs, {abs})
                 [] name = "file_write" ->
                        IF isDir
                        THEN Done(fs, "Error: EISDIR: illegal operation on a directory",
                                  {abs})
                        ELSE Done(Put("b"), "Written 1 bytes to " \o abs, {abs})
                 [] name = "file_append" ->
                        IF isDir
                        THEN Done(fs, "Error: EISDIR: illegal operation on a directory",
                                  {abs})
                        ELSE /\ isFile => Len(fs[abs]) < MaxFileLen
                             /\ Done(Put((IF isFile THEN fs[abs] ELSE "") \o "b"),
                                     "Appended 1 bytes to " \o abs, {abs})
                 [] name = "file_delete" ->
                        IF isFile
                        THEN Done([p \in DOMAIN fs \ {abs} |-> fs[p]],
                                  "Deleted " \o abs, {abs})
                        ELSE IF isDir
                        THEN Done(fs,
                                  "\"" \o abs \o "\" is not a file (won't delete directories).",
                                  {abs})
                        ELSE Done(fs, "File not found: " \o abs, {abs})
                 [] name = "file_list" ->
                        IF isFile
                        THEN Done(fs, "\"" \o abs \o "\" is not a directory.", {abs})
                        ELSE IF ~isDir
                        THEN Done(fs, "Path not found: " \o abs, {abs})
                        ELSE Done(fs, abs \o ":", {abs} \cup below)
                 [] name = "file_search" ->
                        IF ~isFile /\ ~isDir
                        THEN Done(fs, "Path not found: " \o abs, {abs})
                        ELSE Done(fs, "No matches for \"zz\" in " \o abs,
                                  {abs} \cup below)

vars == <<turnVars, storeVars, botVars, registryVars, promptVars, toolVars>>

\* a turn, from runAgentTurn's call to its return; the store stands still
Init ==
    /\ TurnInit /\ StoreInit /\ BotInit /\ RegistryServing /\ PromptServing
    /\ ToolsInit
    /\ db.messages = <<>>

Next ==
    \/ \E h \in PriorHistories, text \in UserTexts :
          RunAgentTurn(h, text, db.core_memories) /\ UNCHANGED <<storeVars, botVars, registryVars, promptVars, toolVars>>
    \/ \E threw \in BOOLEAN : GetEmbeddingSettles(threw) /\ UNCHANGED <<storeVars, botVars, registryVars, promptVars, toolVars>>
    \/ \E o \in SearchOutcomes :
          SearchMemoriesSettles(o) /\ UNCHANGED <<storeVars, botVars, registryVars, promptVars, toolVars>>
    \/ CallProvider /\ UNCHANGED <<storeVars, botVars, registryVars, promptVars, toolVars>>
    \/ \E raw \in BackendResponses(activeProvider) :
          ProviderReturns(raw) /\ UNCHANGED <<storeVars, botVars, registryVars, promptVars, toolVars>>
    \/ ProviderThrows /\ UNCHANGED <<storeVars, botVars, registryVars, promptVars, toolVars>>
    \/ \E i \in 1..Len(toolOutputs) : ToolCompletes(i) /\ UNCHANGED <<storeVars, botVars, registryVars, promptVars, toolVars>>
    \/ BatchSettles /\ UNCHANGED <<storeVars, botVars, registryVars, promptVars, toolVars>>
    \/ MaxIterationsReached /\ UNCHANGED <<storeVars, botVars, registryVars, promptVars, toolVars>>
    \/ \E n \in 1..Len(extractions), o \in ExtractionResults :
          ExtractionSettles(n, o) /\ UNCHANGED <<botVars, registryVars, promptVars, toolVars>>

Spec == Init /\ [][Next]_vars

\* a turn whose provider calls and tool executions all eventually return:
\* the steps of the loop are taken when they can be; the code sets no timer
\* on the embedding request, on the memory search or on the extraction, so
\* nothing forces those to settle
NextLive ==
    \/ \E h \in PriorHistories, text \in UserTexts :
          RunAgentTurn(h, text, db.core_memories) /\ UNCHANGED <<storeVars, botVars, registryVars, promptVars, toolVars>>
    \/ \E threw \in BOOLEAN : GetEmbeddingSettles(threw) /\ UNCHANGED <<storeVars, botVars, registryVars, promptVars, toolVars>>
    \/ \E o \in SearchOutcomes :
          SearchMemoriesSettles(o) /\ UNCHANGED <<storeVars, botVars, registryVars, promptVars, toolVars>>
    \/ CallProvider /\ UNCHANGED <<storeVars, botVars, registryVars, promptVars, toolVars>>
    \/ \E raw \in BackendResponses(activeProvider) :
          ProviderReturns(raw) /\ UNCHANGED <<storeVars, botVars, registryVars, promptVars, toolVars>>
    \/ \E i \in 1..Len(toolOutputs) : ToolCompletes(i) /\ UNCHANGED <<storeVars, botVars, registryVars, promptVars, toolVars>>
    \/ BatchSettles /\ UNCHANGED <<storeVars, botVars, registryVars, promptVars, toolVars>>
    \/ MaxIterationsReached /\ UNCHANGED <<storeVars, botVars, registryVars, promptVars, toolVars>>
    \/ \E n \in 1..Len(extractions), o \in ExtractionResults :
          ExtractionSettles(n, o) /\ UNCHANGED <<botVars, registryVars, promptVars, toolVars>>

SpecLive ==
    /\ Init
    /\ [][NextLive]_vars
    /\ WF_vars(CallProvider /\ UNCHANGED <<storeVars, botVars, registryVars, promptVars, toolVars>>)
    /\ WF_vars(\E raw \in BackendResponses(activeProvider) :
                  ProviderReturns(raw) /\ UNCHANGED <<storeVars, botVars, registryVars, promptVars, toolVars>>)
    /\ WF_vars(\E i \in 1..Len(toolOutputs) :
                  ToolCompletes(i) /\ UNCHANGED <<storeVars, botVars, registryVars, promptVars, toolVars>>)
    /\ WF_vars(BatchSettles /\ UNCHANGED <<storeVars, botVars, registryVars, promptVars, toolVars>>)
    /\ WF_vars(MaxIterationsReached /\ UNCHANGED <<storeVars, botVars, registryVars, promptVars, toolVars>>)

\* the store under saves, clears and the writers of its other tables; no
\* turn runs
InitStore ==
    /\ TurnInit
    /\ maxIterations = 1
    /\ activeProvider = "openai"
    /\ semanticMemory = FALSE
    /\ StoreInit
    /\ BotInit
    /\ tools = <<EchoSpec>>
    /\ RegistryServing
    /\ PromptServing
    /\ ToolsInit

NextStore ==
    \/ \E c \in Chats, msgs \in MessageLists :
          SaveHistoryBegin(c, msgs) /\ UNCHANGED <<turnVars, botVars, registryVars, promptVars, toolVars>>
    \/ SaveHistoryDelete /\ UNCHANGED <<turnVars, botVars, registryVars, promptVars, toolVars>>
    \/ SaveHistoryInsert /\ UNCHANGED <<turnVars, botVars, registryVars, promptVars, toolVars>>
    \/ SaveHistoryInsertFails /\ UNCHANGED <<turnVars, botVars, registryVars, promptVars, toolVars>>
    \/ SaveHistoryCommit /\ UNCHANGED <<turnVars, botVars, registryVars, promptVars, toolVars>>
    \/ Crash /\ UNCHANGED <<turnVars, botVars, registryVars, promptVars, toolVars>>
    \/ SaveHistoryEnd /\ UNCHANGED <<turnVars, botVars, registryVars, promptVars, toolVars>>
    \/ \E c \in Chats : ClearCommand(c) /\ UNCHANGED <<turnVars, botVars, registryVars, promptVars, toolVars>>
    \/ \E title \in {"pet", "Pet"} : SaveNote(title, "cat") /\ UNCHANGED <<turnVars, botVars, registryVars, promptVars, toolVars>>
    \/ \E value \in {"Ann", "Bob"} :
          SetCoreMemory("owner_name", "Owner's name", value) /\ UNCHANGED <<turnVars, botVars, registryVars, promptVars, toolVars>>
    \/ SetSetupStep(1, 0) /\ UNCHANGED <<turnVars, botVars, registryVars, promptVars, toolVars>>
    \/ ClearSetupState(1) /\ UNCHANGED <<turnVars, botVars, registryVars, promptVars, toolVars>>

SpecStore == InitStore /\ [][NextStore]_vars

\* the bot over several updates: text messages and /clear, each handled to
\* its end before the next; the semantic memory is off
InitBot ==
    /\ TurnInit
    /\ maxIterations \in 1..MaxCap
    /\ activeProvider \in {"openai", "anthropic", "google"}
    /\ semanticMemory = FALSE
    /\ StoreInit
    /\ db.messages = <<>>
    /\ db.core_memories = <<>>
    /\ BotInit
    /\ tools = <<EchoSpec>>
    /\ RegistryServing
    /\ PromptServing
    /\ ToolsInit

NextBot ==
    \/ \E from \in Senders, c \in Chats : Whitelist(from, c) /\ UNCHANGED <<registryVars, promptVars, toolVars>>
    \/ \E from \in Senders, c \in Chats : TextMessage(from, c, "hi") /\ UNCHANGED <<registryVars, promptVars, toolVars>>
    \/ CallProvider /\ UNCHANGED <<storeVars, botVars, registryVars, promptVars, toolVars>>
    \/ \E raw \in BotResponses(activeProvider) :
          ProviderReturns(raw) /\ UNCHANGED <<storeVars, botVars, registryVars, promptVars, toolVars>>
    \/ ProviderThrows /\ UNCHANGED <<storeVars, botVars, registryVars, promptVars, toolVars>>
    \/ \E i \in 1..Len(toolOutputs) :
          ToolCompletes(i) /\ UNCHANGED <<storeVars, botVars, registryVars, promptVars, toolVars>>
    \/ BatchSettles /\ UNCHANGED <<storeVars, botVars, registryVars, promptVars, toolVars>>
    \/ MaxIterationsReached /\ UNCHANGED <<storeVars, botVars, registryVars, promptVars, toolVars>>
    \/ TurnSettles /\ UNCHANGED <<registryVars, promptVars, toolVars>>
    \/ SaveHistoryDelete /\ UNCHANGED <<turnVars, botVars, registryVars, promptVars, toolVars>>
    \/ SaveHistoryInsert /\ UNCHANGED <<turnVars, botVars, registryVars, promptVars, toolVars>>
    \/ SaveHistoryInsertFails /\ UNCHANGED <<turnVars, botVars, registryVars, promptVars, toolVars>>
    \/ SaveHistoryCommit /\ UNCHANGED <<turnVars, botVars, registryVars, promptVars, toolVars>>
    \/ SaveSettles /\ UNCHANGED <<registryVars, promptVars, toolVars>>
    \/ \E ok \in BOOLEAN : SendReply(ok) /\ UNCHANGED <<registryVars, promptVars, toolVars>>
    \/ CatchError /\ UNCHANGED <<registryVars, promptVars, toolVars>>
    \/ HandlerEnds /\ UNCHANGED <<registryVars, promptVars, toolVars>>
    \/ \E from \in Senders, c \in Chats :
          MayDispatch(handler) /\ IsAuthorized(from) /\ ClearCommand(c)
              /\ UNCHANGED <<turnVars, botVars, registryVars, promptVars, toolVars>>
    \/ \E n \in 1..Len(extractions),
          o \in {r \in ExtractionResults : ~r.malformed} :
          ExtractionSettles(n, o) /\ UNCHANGED <<botVars, registryVars, promptVars, toolVars>>

SpecBot == InitBot /\ [][NextBot]_vars

\* the handlers of the updates over the store: what each loads and what it
\* writes back, the turn in between taken as one await
InitTransport ==
    /\ TurnInit
    /\ maxIterations = 1
    /\ activeProvider = "openai"
    /\ semanticMemory = FALSE
    /\ StoreInit
    /\ BotInit
    /\ tools = <<EchoSpec>>
    /\ RegistryServing
    /\ PromptServing
    /\ ToolsInit

NextTransport ==
    \/ \E u \in DOMAIN handlers, c \in Chats :
          Dispatch(u, c) /\ UNCHANGED <<turnVars, registryVars, promptVars, toolVars>>
    \/ \E u \in DOMAIN handlers, text \in UserTexts :
          HandlerSaves(u, text) /\ UNCHANGED <<turnVars, registryVars, promptVars, toolVars>>
    \/ SaveHistoryDelete /\ UNCHANGED <<turnVars, botVars, registryVars, promptVars, toolVars>>
    \/ SaveHistoryInsert /\ UNCHANGED <<turnVars, botVars, registryVars, promptVars, toolVars>>
    \/ SaveHistoryInsertFails /\ UNCHANGED <<turnVars, botVars, registryVars, promptVars, toolVars>>
    \/ SaveHistoryCommit /\ UNCHANGED <<turnVars, botVars, registryVars, promptVars, toolVars>>
    \/ \E u \in DOMAIN handlers : HandlerReturns(u) /\ UNCHANGED <<turnVars, registryVars, promptVars, toolVars>>
    \/ \E c \in Chats :
          /\ \A v \in DOMAIN handlers : MayDispatch(handlers[v])
          /\ ClearCommand(c)
          /\ UNCHANGED <<turnVars, botVars, registryVars, promptVars, toolVars>>

SpecTransport == InitTransport /\ [][NextTransport]_vars

\* the registry under switches, uses and restarts, with another writer of
\* the core memories; no turn runs
InitRegistry ==
    /\ TurnInit
    /\ maxIterations = 1
    /\ activeProvider = "openai"
    /\ semanticMemory = FALSE
    /\ tools = <<EchoSpec>>
    /\ StoreInit
    /\ db.messages = <<>>
    /\ BotInit
    /\ RegistryInit
    /\ PromptServing
    /\ ToolsInit

NextRegistry ==
    \/ \E providerId \in ProviderIds \cup {"deepseek", "toString"},
          model \in {"gpt-4o", "bogus", "", "org:m"},
          writeThrows \in BOOLEAN :
          SwitchProvider(providerId, model, writeThrows)
              /\ UNCHANGED <<turnVars, botVars, promptVars, toolVars>>
    \/ GetActiveProvider /\ UNCHANGED <<turnVars, botVars, promptVars, toolVars>>
    \/ Restart /\ UNCHANGED <<turnVars, botVars, promptVars, toolVars>>
    \/ SetCoreMemory("owner_name", "Owner's name", "Bob")
          /\ UNCHANGED <<turnVars, botVars, registryVars, promptVars, toolVars>>

SpecRegistry == InitRegistry /\ [][NextRegistry]_vars

\* the process from the evaluation of its modules on: main(), then the bot
\* over /setup, the replies of the setup flow and text messages whose turns
\* may call soul_update
InitSession ==
    /\ TurnInit
    /\ maxIterations = 2
    /\ activeProvider = "openai"
    /\ semanticMemory = FALSE
    /\ tools = <<EchoSpec>>
    /\ StoreInit
    /\ db.messages = <<>>
    /\ db.core_memories = <<>>
    /\ BotInit
    /\ RegistryServing
    /\ SOUL \in {"", "Be kind"}
    /\ skills = Null
    /\ BASE_SYSTEM_PROMPT = BuildBaseSystemPrompt(SOUL, skills)
    /\ startup = "imported"
    /\ ToolsInit

NextSession ==
    \/ \E files \in {<<>>, <<"Coding">>} :
          Main(files)
              /\ UNCHANGED <<turnVars, storeVars, botVars, registryVars, toolVars>>
    \/ \E from \in Senders :
          startup = "started" /\ StartSetup(from, 1)
              /\ UNCHANGED <<registryVars, promptVars, toolVars>>
    \/ \E from \in Senders,
          text \in IF IsNull(db.setup_state[1]) THEN {}
                   ELSE IF db.setup_state[1][1] \in {0, Len(SETUP_STEPS) - 1}
                   THEN {"Ann", " Skip "}
                   ELSE {" Skip "} :
          startup = "started" /\ HandleSetupReply(from, 1, text)
              /\ UNCHANGED <<registryVars, promptVars, toolVars>>
    \/ \E from \in Senders :
          startup = "started" /\ TextMessage(from, 1, "hi")
              /\ UNCHANGED <<registryVars, promptVars, toolVars>>
    \/ CallProvider /\ UNCHANGED <<storeVars, botVars, registryVars, promptVars, toolVars>>
    \/ \E raw \in { [role |-> "assistant", content |-> Some("hello")],
                     [role |-> "assistant", content |-> Null,
                      tool_calls |->
                          <<WireToolCall("call_a", "soul_update",
                                "{\"mode\":\"append\",\"content\":\"Be brief\"}")>>] } :
          ProviderReturns(raw) /\ UNCHANGED <<storeVars, botVars, registryVars, promptVars, toolVars>>
    \/ \E i \in 1..Len(toolOutputs) :
          SoulUpdateCompletes(i, "append", "Be brief")
              /\ UNCHANGED <<storeVars, botVars, registryVars, toolVars>>
    \/ BatchSettles /\ UNCHANGED <<storeVars, botVars, registryVars, promptVars, toolVars>>
    \/ MaxIterationsReached /\ UNCHANGED <<storeVars, botVars, registryVars, promptVars, toolVars>>
    \/ TurnSettles /\ UNCHANGED <<registryVars, promptVars, toolVars>>
    \/ SaveHistoryDelete /\ UNCHANGED <<turnVars, botVars, registryVars, promptVars, toolVars>>
    \/ SaveHistoryInsert /\ UNCHANGED <<turnVars, botVars, registryVars, promptVars, toolVars>>
    \/ SaveHistoryCommit /\ UNCHANGED <<turnVars, botVars, registryVars, promptVars, toolVars>>
    \/ SaveSettles /\ UNCHANGED <<registryVars, promptVars, toolVars>>
    \/ SendReply(TRUE) /\ UNCHANGED <<registryVars, promptVars, toolVars>>
    \/ HandlerEnds /\ UNCHANGED <<registryVars, promptVars, toolVars>>

SpecSession == InitSession /\ [][NextSession]_vars

\* the tools of the MCP bridge and the file tools, dispatched one call at
\* a time
InitTools ==
    /\ TurnInit
    /\ tools = <<EchoSpec>>
    /\ maxIterations = 1
    /\ activeProvider = "openai"
    /\ semanticMemory = FALSE
    /\ StoreInit
    /\ db.messages = <<>>
    /\ db.core_memories = <<>>
    /\ BotInit
    /\ RegistryServing
    /\ PromptServing
    /\ ToolsInit

NextTools ==
    \/ \E cfgs \in {{"zap", "my_srv"}, {"a__b"}, {"a", "a__b"}},
          failed \in {{}, {"zap"}},
          listed \in {{"get"}, {"find_email", "list__all", "_t"}} :
          InitMcp(cfgs, failed, listed)
              /\ UNCHANGED <<turnVars, storeVars, botVars, registryVars, promptVars>>
    \/ \E mcpTool \in mcp.tools :
          McpToolExecute(mcpTool)
              /\ UNCHANGED <<turnVars, storeVars, botVars, registryVars, promptVars>>
    \/ \E name \in {"file_read", "file_write", "file_append", "file_delete",
                     "file_list", "file_search"},
          target \in {" ./data/n.txt", "data", "data/../../etc/passwd",
                      "../app/data2/s.txt", ""} :
          FileToolExecute(name, target)
              /\ UNCHANGED <<turnVars, storeVars, botVars, registryVars, promptVars>>

SpecTools == InitTools /\ [][NextTools]_vars


\* ------------------------------------------------ properties of the turn

Returned_pcs == {"DONE", "MAX_ITER_EXCEEDED"}

\* the response r requests at least one tool call
RequestsTools(r) == ~IsNull(r.toolCalls) /\ Len(r.toolCalls[1]) >= 1

\* the number of tool calls the response r requests
BatchSize(r) == IF IsNull(r.toolCalls) THEN 0 ELSE Len(r.toolCalls[1])

\* the message m carries tool calls
CarriesToolCalls(m) == "tool_calls" \in DOMAIN m /\ Len(m.tool_calls) > 0

\* C1: a turn that returns yields exactly one of two outcomes: the text of a
\* provider response that carried no tool calls (and only when the last
\* response had none), or the fixed max-iteration warning (and only when the
\* loop ended because the cap was reached, every response having requested
\* tools); the terminal response never carries both content and tool calls.
C1_TerminalOutcome ==
    /\ pc = "DONE" =>
          /\ Len(responses) >= 1
          /\ LET r == responses[Len(responses)]
             IN /\ ~RequestsTools(r)
                /\ ~IsNull(r.content)
                /\ reply = r.content[1]
                /\ ~CarriesToolCalls(r.assistantMessage)
          /\ reply # MaxIterationsReply
    /\ pc = "MAX_ITER_EXCEEDED" =>
          /\ reply = MaxIterationsReply
          /\ iterations >= maxIterations
          /\ \A j \in 1..Len(responses) : RequestsTools(responses[j])
    /\ reply = MaxIterationsReply => pc = "MAX_ITER_EXCEEDED"
    /\ pc \notin Returned_pcs => reply = ""

\* C1 witness: a model reply returned after one round of tools
C1_Witness ==
    pc = "DONE" /\ Len(responses) = 2 /\ reply = "hello"

\* C2: a turn makes at most maxIterations calls to provider.complete; a turn
\* that returns after only tool-requesting responses has made exactly
\* maxIterations calls and returns the fixed warning.
C2_IterationCap ==
    /\ calls <= maxIterations
    /\ pc = "MAX_ITER_EXCEEDED" => calls = maxIterations
    /\ (pc \in Returned_pcs /\ \A j \in 1..Len(responses) : RequestsTools(responses[j]))
          => /\ calls = maxIterations
             /\ pc = "MAX_ITER_EXCEEDED"
             /\ reply = MaxIterationsReply

\* C2 witness: the cap of 2 is hit after exactly 2 calls
C2_Witness ==
    pc = "MAX_ITER_EXCEEDED" /\ maxIterations = 2 /\ calls = 2

\* the position in messages of the assistant message of response j
RECURSIVE AppendedBefore(_)
AppendedBefore(j) ==
    IF j <= 1 THEN 0
    ELSE AppendedBefore(j - 1) + 1 + BatchSize(responses[j - 1])
AssistantPos(j) == Len(history) + 2 + AppendedBefore(j) + 1

\* the batch of response j has settled
BatchSettled(j) ==
    \/ j < Len(responses)
    \/ pc \in {"loop", "AWAITING_MODEL", "MAX_ITER_EXCEEDED"}

\* C3: once the batch of a response with k tool calls has settled, exactly k
\* tool messages follow that response's assistant message; the i-th carries
\* the id of the i-th requested call and the output of dispatching it, and
\* the k ids are pairwise distinct, whatever order the calls completed in.
C3_ToolResultsInRequestOrder ==
    \A j \in 1..Len(responses) :
        LET r == responses[j]
            k == BatchSize(r)
            p == AssistantPos(j)
        IN (k > 0 /\ BatchSettled(j)) =>
              /\ Len(messages) >= p + k
              /\ messages[p] = r.assistantMessage
              /\ \A i \in 1..k :
                    LET call == r.toolCalls[1][i]
                    IN /\ messages[p + i].role = "tool"
                       /\ messages[p + i].tool_call_id = call.id
                       /\ messages[p + i].content =
                              Some(DispatchTool(call.name, call.arguments).value)
              /\ Len(messages) > p + k => messages[p + k + 1].role # "tool"
              /\ \A i1, i2 \in 1..k :
                    i1 # i2 => messages[p + i1].tool_call_id
                                   # messages[p + i2].tool_call_id

\* C3 witness: a batch of two calls settled after the second call completed
\* first
C3_Witness ==
    pc = "loop" /\ completed = <<2, 1>>

\* C4: no dispatch raises; an unregistered name gives "Error: unknown tool",
\* an argument text that does not parse (for a registered tool) gives
\* "Error: could not parse arguments", an execute that raises gives
\* "Error executing"; the string is appended as the call's tool result and
\* the loop goes round instead of the turn failing.
C4_DispatchNeverRaises ==
    /\ \A i \in 1..Len(toolOutputs) :
          ~IsNull(toolOutputs[i]) =>
             LET call == result.toolCalls[1][i]
                 out == toolOutputs[i][1]
                 parsed == JSONParseArgs(call.arguments)
             IN /\ ~out.threw
                /\ call.name \notin RegisteredTools =>
                      StartsWith(out.value, "Error: unknown tool")
                /\ (call.name \in RegisteredTools /\ parsed.threw) =>
                      StartsWith(out.value, "Error: could not parse arguments")
                /\ (call.name \in RegisteredTools /\ ~parsed.threw
                      /\ Execute(call.name, parsed.value).threw) =>
                      StartsWith(out.value, "Error executing")
    /\ (pc = "loop" /\ Len(responses) >= 1) =>
          \A i \in 1..Len(toolOutputs) :
             messages[Len(messages) - Len(toolOutputs) + i] =
                 ToolMessage(result.toolCalls[1][i].id, toolOutputs[i][1].value)
    /\ pc = "failed" => calls = Len(responses) + 1

\* a tool message whose content starts with prefix
HasToolResult(prefix) ==
    \E n \in 1..Len(messages) :
        messages[n].role = "tool" /\ StartsWith(messages[n].content[1], prefix)

\* C4 witness: the three kinds of error string have been appended as tool
\* results and the loop is at its head again
C4_Witness ==
    /\ pc = "loop"
    /\ HasToolResult("Error: unknown tool \"foo_bar\"")
    /\ HasToolResult("Error: could not parse arguments as JSON: {bad json")
    /\ HasToolResult("Error executing \"echo\": TypeError")

\* the tool messages of the response r
ExpectedToolMessages(r) ==
    [i \in 1..BatchSize(r) |->
        ToolMessage(r.toolCalls[1][i].id,
                    DispatchTool(r.toolCalls[1][i].name,
                                 r.toolCalls[1][i].arguments).value)]

\* what the responses append: each assistant message, then its tool messages
RECURSIVE ExpectedAppended(_)
ExpectedAppended(rs) ==
    IF Len(rs) = 0 THEN <<>>
    ELSE <<Head(rs).assistantMessage>> \o ExpectedToolMessages(Head(rs))
             \o ExpectedAppended(Tail(rs))

C5_Returned ==
    pc \in Returned_pcs =>
       /\ updatedHistory =
              history \o <<UserMessage(userMessage)>> \o ExpectedAppended(responses)
       /\ \A n \in 1..Len(updatedHistory) : updatedHistory[n].role # "system"
       /\ (/\ history = <<>>
           /\ userMessage = "hi"
           /\ responses = <<[content |-> Some("hello"), toolCalls |-> Null,
                             assistantMessage |-> AssistantText("hello")]>>)
             => /\ reply = "hello"
                /\ updatedHistory = <<UserMessage("hi"), AssistantText("hello")>>

\* C5: for a turn that returns, updatedHistory is the prior history, then the
\* new user message, then the assistant and tool messages in the order they
\* were appended, without the system message; the caller's list is not
\* changed during the turn; "hello" at once on empty history and "hi" gives
\* reply "hello" and [user("hi"), assistant("hello")].
C5_UpdatedHistory ==
    /\ []C5_Returned
    /\ [][pc # "idle" => history' = history]_vars

\* C5 witness: a turn on a non-empty prior history returned after a batch of
\* two tools
C5_Witness ==
    /\ pc = "DONE"
    /\ Len(history) = 2
    /\ Len(updatedHistory) = 7

\* C10: every LLMResponse an adapter returned has exactly one of content and
\* toolCalls non-null: a non-empty toolCalls with null content, or a string
\* content with null toolCalls.
C10_ExactlyOneOfContentToolCalls ==
    \A j \in 1..Len(responses) :
        LET r == responses[j]
        IN \/ /\ ~IsNull(r.toolCalls)
              /\ Len(r.toolCalls[1]) >= 1
              /\ IsNull(r.content)
           \/ /\ ~IsNull(r.content)
              /\ IsNull(r.toolCalls)

\* C10 witness: an adapter answered a backend message that carried both text
\* and tool calls, and then one that carried text alone
C10_Witness ==
    /\ Len(responses) = 2
    /\ ~IsNull(responses[1].assistantMessage.content)
    /\ RequestsTools(responses[1])
    /\ ~IsNull(responses[2].content)

\* C12: every assistant message the turn has appended has non-null content or
\* a non-empty tool_calls list.
C12_AssistantHasContentOrToolCalls ==
    \A n \in (Len(history) + 3)..Len(messages) :
        messages[n].role = "assistant" =>
            \/ ~IsNull(messages[n].content)
            \/ CarriesToolCalls(messages[n])

\* the string s contains the string sub
Contains(s, sub) ==
    \E i \in 1..(Len(s) - Len(sub) + 1) : SubSeq(s, i, i + Len(sub) - 1) = sub

\* buildSystemPrompt has returned
PromptBuilt == pc \notin {"idle", "EMBEDDING", "SEARCHING"}

\* the turn's semanticSearch failed: a request rejected, the search reported
\* an error, or its data could not be read
SearchFailed ==
    /\ searchOutcome.at # "none"
    /\ searchOutcome.threw \/ searchOutcome.error \/ IsNull(searchOutcome.data)

\* C18: when the semantic memory is not configured or the search fails, the
\* turn is not failed: its system message is the base prompt plus the owner
\* profile, with no memory-context block, and the turn stands at the loop or
\* beyond it, failing only on a provider call; whatever the search returns,
\* the messages after the system message are the prior history and the new
\* user message, unchanged.
C18_RetrievalDegrades ==
    /\ (PromptBuilt /\ (~semanticMemory \/ SearchFailed)) =>
          /\ messages[1] = SystemMessage(BaseWithCore(db.core_memories))
          /\ ~Contains(messages[1].content[1], "[MEMORY CONTEXT]")
    /\ searchOutcome.at # "none" => PromptBuilt
    /\ pc = "failed" => calls >= 1
    /\ PromptBuilt =>
          /\ messages[1].role = "system"
          /\ SubSeq(messages, 2, Len(history) + 2) =
                 history \o <<UserMessage(userMessage)>>

\* C18 witness: the search reported an error, the owner profile is not
\* empty, and the provider has been called
C18_Witness ==
    /\ pc = "AWAITING_MODEL"
    /\ searchOutcome.error
    /\ Len(db.core_memories) > 0
    /\ Len(history) > 0


\* ----------------------------------------------- properties of the store

\* the rows of chat chatId the file holds
RowsOf(chatId) ==
    LET Mine(r) == r.chat_id = chatId IN SelectSeq(db.messages, Mine)

\* C6: loadHistory(chatId) after saveHistory(chatId, M) returns M, element
\* by element and in order, tool calls, tool-call ids and null content
\* included: the stored payload decides, not the role and content columns.
C6_SaveLoadRoundTrip ==
    save.pc = "saved" => LoadHistory(db, save.chatId) = save.messages

\* C6 witness: a list with a tool call, a tool message and null content has
\* replaced an earlier list
C6_Witness ==
    /\ save.pc = "saved"
    /\ save.messages = ToolTurn
    /\ Len(save.before) > 0

\* C7: a saveHistory(chatId, M) directly after a saveHistory(chatId, M)
\* leaves loadHistory(chatId) returning exactly M: nothing twice, nothing
\* lost.
C7_SaveIdempotent ==
    (save.pc = "saved" /\ save.repeat) =>
        /\ LoadHistory(db, save.chatId) = save.messages
        /\ Len(RowsOf(save.chatId)) = Len(save.messages)

\* C7 witness: the same non-empty list was saved twice in a row
C7_Witness ==
    /\ save.pc = "saved"
    /\ save.repeat
    /\ save.messages = ToolTurn

\* C8: whenever the store can be observed during or after a saveHistory --
\* inside the transaction, after an insert failure, after a crash -- the
\* chat's history is the complete previous list, and after the commit the
\* complete new list; never an empty, partial or interleaved one.
C8_SaveAtomic ==
    /\ save.pc \in {"deleting", "inserting", "failed", "crashed"} =>
          LoadHistory(db, save.chatId) = save.before
    /\ save.pc = "saved" =>
          LoadHistory(db, save.chatId) = save.messages

\* C8 witness: the process died after the delete and two inserts of a save
\* that was replacing a different, non-empty list
C8_Witness ==
    /\ save.pc = "crashed"
    /\ save.i = 3
    /\ Len(save.before) > 0
    /\ save.before # save.messages

\* C9: /clear leaves the chat's history empty and the notes, the core
\* memories and the setup state as they were.
C9_ClearKeepsMemory ==
    [][\A c \in Chats :
          ClearCommand(c) =>
             /\ LoadHistory(db', c) = <<>>
             /\ db'.notes = db.notes
             /\ db'.core_memories = db.core_memories
             /\ db'.setup_state = db.setup_state]_vars

\* C9 witness: a /clear has run on a store that holds a note, a core memory
\* and a setup step
C9_Witness ==
    /\ lastOp.op = "clear"
    /\ Len(db.notes) > 0
    /\ Len(db.core_memories) > 0
    /\ ~IsNull(db.setup_state[1])
    /\ LoadHistory(db, lastOp.chatId) = <<>>


\* ------------------------------------------------- properties of the bot

\* in the list H every tool message answers a tool call of the nearest
\* assistant message before it, with only tool messages in between
WellPaired(H) ==
    \A n \in 1..Len(H) :
        H[n].role = "tool" =>
            \E a \in 1..(n - 1) :
                /\ H[a].role = "assistant"
                /\ \A k \in (a + 1)..(n - 1) : H[k].role = "tool"
                /\ CarriesToolCalls(H[a])
                /\ \E c \in 1..Len(H[a].tool_calls) :
                       H[a].tool_calls[c].id = H[n].tool_call_id

\* C11: over any sequence of turns, in every history runAgentTurn returns
\* each tool message's tool_call_id is the id of a tool call of the nearest
\* preceding assistant message, and only tool messages lie between the two.
C11_ToolMessagesAnswerNearestAssistant ==
    pc \in Returned_pcs => WellPaired(updatedHistory)

\* C11 witness: a second turn of a chat, whose loaded history already holds
\* a tool message, returned after a batch of its own
C11_Witness ==
    /\ pc = "DONE"
    /\ \E n \in 1..Len(history) : history[n].role = "tool"
    /\ \E n \in (Len(history) + 2)..Len(updatedHistory) :
          updatedHistory[n].role = "tool"

\* C13: when provider.complete fails, no provider call follows the failing
\* one, saveHistory is not entered and the chat's stored history is what the
\* turn loaded; the handler sends the failure reply and nothing else.
C13_ProviderFailureAbortsTurn ==
    pc = "failed" =>
        /\ calls = Len(responses) + 1
        /\ handler.pc \in {"turn", "caught", "done"}
        /\ handler.save = "none"
        /\ save.pc = "idle"
        /\ LoadHistory(db, handler.chatId) = history
        /\ Len(sent) = IF handler.pc = "done" THEN updates ELSE updates - 1
        /\ handler.pc = "done" =>
              sent[Len(sent)] = [chatId |-> handler.chatId, kind |-> "failure",
                                 text |-> FailureReply]

\* C13 witness: the second provider call of the second turn of a chat
\* failed and the handler has answered
C13_Witness ==
    /\ pc = "failed"
    /\ calls = 2
    /\ handler.pc = "done"
    /\ Len(history) > 0

\* C14: the reply is sent only once saveHistory has returned, the chat's
\* stored history then being the turn's updatedHistory; when saveHistory
\* raises, the handler is in its catch, the reply is not sent, the failure
\* reply is, and the stored history is what the turn loaded.
C14_ReplyOnlyAfterSave ==
    /\ (handler.pc = "done" /\ sent[Len(sent)].kind = "reply") =>
          /\ handler.save = "saved"
          /\ sent[Len(sent)].text = reply
          /\ LoadHistory(db, handler.chatId) = updatedHistory
    /\ handler.save = "failed" =>
          /\ handler.pc \in {"caught", "done"}
          /\ LoadHistory(db, handler.chatId) = history
          /\ Len(sent) = IF handler.pc = "done" THEN updates ELSE updates - 1
          /\ handler.pc = "done" =>
                sent[Len(sent)] = [chatId |-> handler.chatId,
                                   kind |-> "failure", text |-> FailureReply]
    /\ handler.pc = "saved" => handler.save = "saved"

\* C14 witness: the save of a returned turn of a chat with a stored history
\* raised and the handler has answered
C14_Witness ==
    /\ handler.pc = "done"
    /\ handler.save = "failed"
    /\ pc = "DONE"
    /\ Len(history) > 0

\* C15: at most one load / turn / save sequence is in progress per chat, and
\* the rows a handler's save replaces are the history that handler loaded:
\* no save overwrites messages saved after the history it extends was read.
C15_OneTurnPerChat ==
    /\ \A u, v \in DOMAIN handlers :
          (/\ u # v
           /\ handlers[u].pc # "idle"
           /\ handlers[v].pc # "idle") =>
              handlers[u].chatId # handlers[v].chatId
    /\ \A u \in DOMAIN handlers :
          /\ handlers[u].pc = "turn" =>
                LoadHistory(db, handlers[u].chatId) = handlers[u].loaded
          /\ handlers[u].pc = "saving" =>
                /\ save.chatId = handlers[u].chatId
                /\ save.before = handlers[u].loaded

\* C15 witness: the handler of a later update saves over the history the
\* handler of an earlier update stored for the same chat
C15_Witness ==
    \E u \in DOMAIN handlers :
        /\ handlers[u].pc = "saving"
        /\ save.pc = "saved"
        /\ Len(handlers[u].loaded) >= 2
        /\ updates = 2

\* C16: every turn that returns, with the model's final text or with the
\* iteration-cap reply, has started one background extraction, for its user
\* message and its reply, and did not wait for it.
C16_ExtractionStartedOnEveryReturn ==
    pc \in Returned_pcs =>
        /\ Len(extractions) = 1
        /\ extractions[1].userMessage = userMessage
        /\ extractions[1].assistantReply = reply

\* C19: the memory retrieval is bounded by a timeout of its own: a turn
\* that awaits the embedding or the memory search eventually has its system
\* prompt and goes on to the loop, answered or not.
C19_RetrievalBounded ==
    (pc \in {"EMBEDDING", "SEARCHING"}) ~> PromptBuilt

\* C20: when every provider call and every tool execution eventually
\* returns, every turn that was started eventually returns a reply, after at
\* most cap provider calls.
C20_TurnTerminates ==
    /\ (pc # "idle") ~> (pc \in Returned_pcs)
    /\ [](calls <= maxIterations)

\* from the loop on, a turn whose calls all return does return
TerminatesFromLoop == (pc = "loop") ~> (pc \in Returned_pcs)

\* C17: the promise of extractAndSaveFacts never rejects, and the step in
\* which an extraction settles, whatever its request answered, leaves the
\* turn's reply and updatedHistory, the handler and the stored messages as
\* they were; a turn saved while extractions run or have settled stores its
\* updatedHistory.
C17_ExtractionLeavesTurnAlone ==
    /\ [](\A n \in 1..Len(extractions) : extractions[n].pc # "rejected")
    /\ []((handler.pc = "done" /\ handler.save = "saved") =>
             LoadHistory(db, handler.chatId) = updatedHistory)
    /\ [][extractions' # extractions /\ Len(extractions') = Len(extractions) =>
             /\ pc' = pc
             /\ reply' = reply
             /\ updatedHistory' = updatedHistory
             /\ handler' = handler
             /\ sent' = sent
             /\ db'.messages = db.messages]_vars

\* C17 witness: the second turn of a chat was saved and answered while the
\* extraction of the first never finished and its own has saved a note
C17_Witness ==
    /\ Len(extractions) = 2
    /\ extractions[1].pc = "running"
    /\ extractions[2].pc = "settled"
    /\ Len(db.notes) > 0
    /\ handler.pc = "done"
    /\ handler.save = "saved"
    /\ sent[Len(sent)].kind = "reply"
    /\ Len(history) > 0


\* the last n messages of the array
LastMessages(n) == SubSeq(messages, Len(messages) - n + 1, Len(messages))

\* C25: a batch has all its calls running from the step that started it;
\* the loop goes on to its next provider call only when every call of the
\* batch has settled and the tool messages of the whole batch are the last
\* messages of the array, so no call of an earlier batch is still running
\* when a later one starts.
C25_BatchJoinsBeforeNextCall ==
    /\ [](pc = "EXECUTING_TOOLS" =>
             Len(toolOutputs) = Len(result.toolCalls[1]))
    /\ []((pc \in {"loop", "AWAITING_MODEL"} /\ RequestsTools(result)) =>
             /\ \A i \in 1..Len(toolOutputs) : ~IsNull(toolOutputs[i])
             /\ Len(completed) = Len(result.toolCalls[1])
             /\ LastMessages(Len(toolOutputs)) =
                    [i \in 1..Len(toolOutputs) |->
                        ToolMessage(result.toolCalls[1][i].id,
                                    toolOutputs[i][1].value)])
    /\ [][pc = "AWAITING_MODEL" /\ pc' = "EXECUTING_TOOLS" =>
             \A i \in 1..Len(toolOutputs') : IsNull(toolOutputs'[i])]_vars

\* C25 witness: the second provider call of a turn is awaited after a batch
\* of two whose second call settled first
C25_Witness ==
    /\ pc = "AWAITING_MODEL"
    /\ calls = 2
    /\ completed = <<2, 1>>


\* C23: the iteration cap the loop reads is an integer of at least 1, so a
\* turn that ends with the fixed warning has made a provider call.
C23_CapAtLeastOne ==
    pc # "idle" =>
        /\ maxIterations >= 1
        /\ pc = "MAX_ITER_EXCEEDED" => calls >= 1


\* C24: only updates sent by ALLOWED_USER_ID are handled; an update of
\* another sender, or of none, is dropped by the whitelist: from its arrival
\* to its end no turn starts, no reply is sent, and the stored messages,
\* setup state, core memories and active provider stay as they are (notes
\* change only by an extraction of an earlier turn settling meanwhile).
C24_OnlyOwnerIsServed ==
    /\ [](handler.pc \notin {"idle", "dropped"} =>
             handler.from = Some(ALLOWED_USER_ID))
    /\ [](handler.pc = "dropped" => handler.from # Some(ALLOWED_USER_ID))
    /\ [][(handler.pc = "dropped" \/ handler'.pc = "dropped") =>
             /\ pc' = pc
             /\ calls' = calls
             /\ sent' = sent
             /\ activeProvider' = activeProvider
             /\ db'.messages = db.messages
             /\ db'.setup_state = db.setup_state
             /\ db'.core_memories = db.core_memories
             /\ db'.notes # db.notes => extractions' # extractions]_vars

\* C24 witness: an update of another user is dropped in a chat whose owner
\* has a stored conversation
C24_Witness ==
    /\ handler.pc = "dropped"
    /\ handler.from = Some(OtherUserId)
    /\ Len(LoadHistory(db, handler.chatId)) > 0
    /\ Len(sent) = 1


\* ------------------------------------------ properties of the adapters

\* the ids the backend gave the tool calls of its answer raw, in order; a
\* Gemini answer carries none and they are counted from 0
BackendIds(id, raw) ==
    CASE id = "anthropic" ->
             LET blocks == SelectSeq(raw, IsToolUse)
             IN [i \in 1..Len(blocks) |-> blocks[i].id]
      [] id = "google" ->
             [i \in 1..Len(raw.functionCalls) |-> "gemini-" \o ToString(i - 1)]
      [] OTHER -> [i \in 1..Len(raw.tool_calls) |-> raw.tool_calls[i].id]

\* C22: when an adapter's response requests tools, the ids of its toolCalls
\* are, position by position, the ids of the tool_calls of its
\* assistantMessage and the ids the backend supplied; a Gemini response,
\* which supplies none, gets gemini-0, gemini-1, ... counted anew for each
\* response.
C22_ToolCallIdsStable ==
    (RequestsTools(result) /\ ~IsNull(backend)) =>
        LET toolCalls == result.toolCalls[1]
            wire == result.assistantMessage.tool_calls
            ids == BackendIds(activeProvider, backend[1])
        IN /\ Len(wire) = Len(toolCalls)
           /\ Len(ids) = Len(toolCalls)
           /\ \A i \in 1..Len(toolCalls) :
                 /\ wire[i].id = toolCalls[i].id
                 /\ ids[i] = toolCalls[i].id

\* C22 witness: the second Gemini response of a turn requests two tools
C22_Witness ==
    /\ activeProvider = "google"
    /\ calls = 2
    /\ pc = "EXECUTING_TOOLS"
    /\ Len(result.toolCalls[1]) = 2
    /\ result.toolCalls[1][2].id = "gemini-1"

\* what a canonical message list says, message by message: who speaks,
\* the text, the ids and names of the tool calls made, the id of the call
\* answered; system messages and assistant messages that say nothing are
\* left out
SaidByCanonical(msgs) ==
    LET Says(m) ==
            /\ m.role # "system"
            /\ m.role = "assistant" =>
                   \/ OrElse(m.content, "") # ""
                   \/ CarriesToolCalls(m)
        said == SelectSeq(msgs, Says)
    IN [n \in 1..Len(said) |->
           LET m == said[n]
               tcs == IF "tool_calls" \in DOMAIN m THEN m.tool_calls ELSE <<>>
           IN [role |-> m.role,
               text |-> OrElse(m.content, ""),
               ids |-> [i \in 1..Len(tcs) |-> tcs[i].id],
               names |-> [i \in 1..Len(tcs) |-> tcs[i].function.name],
               answers |-> IF m.role = "tool" THEN m.tool_call_id ELSE ""]]

\* the same reading of the messages of an Anthropic request: a user message
\* of tool_result blocks says one tool message per block
SaidByAnthropic(msgs) ==
    Concat([n \in 1..Len(msgs) |->
        LET m == msgs[n] IN
        IF "text" \in DOMAIN m
        THEN <<[role |-> m.role, text |-> m.text, ids |-> <<>>,
                names |-> <<>>, answers |-> ""]>>
        ELSE IF m.role = "assistant"
             THEN LET uses == SelectSeq(m.blocks, IsToolUse)
                  IN <<[role |-> "assistant",
                        text |-> TextOf(m.blocks),
                        ids |-> [i \in 1..Len(uses) |-> uses[i].id],
                        names |-> [i \in 1..Len(uses) |-> uses[i].name],
                        answers |-> ""]>>
             ELSE [k \in 1..Len(m.blocks) |->
                      [role |-> "tool", text |-> m.blocks[k].content,
                       ids |-> <<>>, names |-> <<>>,
                       answers |-> m.blocks[k].tool_use_id]]])

\* C26: the request the Anthropic adapter returns has the system content as
\* its system field and says, in the same order, what the canonical list
\* says: user and assistant messages with their text, every tool call as a
\* tool_use block with its id and name, every tool message as a tool_result
\* block with its tool_call_id; the tool results of a batch are the blocks,
\* in request order, of one user message that directly follows the assistant
\* message whose tool_use blocks they answer.
C26_AnthropicKeepsRolesAndOrder ==
    (activeProvider = "anthropic" /\ pc = "AWAITING_MODEL") =>
        LET native == request[1].native IN
        ~native.threw =>
        /\ native.system = messages[1].content[1]
        /\ SaidByAnthropic(native.msgs) = SaidByCanonical(messages)
        /\ \A n \in 1..Len(native.msgs) :
              (native.msgs[n].role = "user" /\ "blocks" \in DOMAIN native.msgs[n]) =>
                  /\ n > 1
                  /\ native.msgs[n - 1].role = "assistant"
                  /\ LET uses == SelectSeq(native.msgs[n - 1].blocks, IsToolUse)
                     IN /\ Len(uses) = Len(native.msgs[n].blocks)
                        /\ \A k \in 1..Len(uses) :
                              native.msgs[n].blocks[k].tool_use_id = uses[k].id

\* C26 witness: the second request of a turn with an earlier conversation
\* carries the two tool results of the first batch in one user message
C26_Witness ==
    /\ activeProvider = "anthropic"
    /\ pc = "AWAITING_MODEL"
    /\ calls = 2
    /\ Len(history) > 0
    /\ \E n \in 1..Len(request[1].native.msgs) :
          /\ "blocks" \in DOMAIN request[1].native.msgs[n]
          /\ request[1].native.msgs[n].role = "user"
          /\ Len(request[1].native.msgs[n].blocks) = 2

\* C27: in every request of the Gemini adapter, on the first and on every
\* later provider call of a turn, the prompt is the text of the last user
\* message of the list, and the chat history holds the other messages that
\* say something, each once, the tool results of the previous iteration
\* among them.
C27_GeminiPromptIsLastUserMessage ==
    (activeProvider = "google" /\ pc = "AWAITING_MODEL") =>
        LET native == request[1].native
            IsUser(m) == m.role = "user"
            users == SelectSeq(messages, IsUser)
            IsFunction(c) == c.role = "function"
            IsTool(m) == m.role = "tool"
        IN ~native.threw =>
           /\ native.lastUserMessage = users[Len(users)].content[1]
           /\ Len(native.history) + 1 = Len(SaidByCanonical(messages))
           /\ Len(SelectSeq(native.history, IsFunction)) =
                  Len(SelectSeq(messages, IsTool))

\* the keys of the JSON value j at every depth
RECURSIVE KeysOf(_)
KeysOf(j) ==
    CASE j.t = "array" -> UNION {KeysOf(j.items[i]) : i \in 1..Len(j.items)}
      [] j.t = "object" ->
             {j.items[i].key : i \in 1..Len(j.items)}
             \cup UNION {KeysOf(j.items[i].value) : i \in 1..Len(j.items)}
      [] OTHER -> {}

\* every required list of the schema j, at every depth, is non-empty and
\* names only keys of the properties beside it
RECURSIVE RequiredAreDeclared(_)
RequiredAreDeclared(j) ==
    CASE j.t = "array" ->
             \A i \in 1..Len(j.items) : RequiredAreDeclared(j.items[i])
      [] j.t = "object" ->
             /\ \A i \in 1..Len(j.items) : RequiredAreDeclared(j.items[i].value)
             /\ \A i \in 1..Len(j.items) :
                   (j.items[i].key = "required" /\ j.items[i].value.t = "array") =>
                       /\ Len(j.items[i].value.items) > 0
                       /\ \E p \in 1..Len(j.items) :
                             /\ j.items[p].key = "properties"
                             /\ \A r \in 1..Len(j.items[i].value.items) :
                                   \E d \in 1..Len(j.items[p].value.items) :
                                       j.items[p].value.items[d].key =
                                           j.items[i].value.items[r].s
      [] OTHER -> TRUE

\* C21: in the tool declarations of every Gemini request no schema has an
\* unsupported keyword at any depth, and every required list, at any
\* depth, is non-empty and names only parameters declared in the properties
\* beside it.
C21_GeminiSchemasSanitized ==
    (activeProvider = "google" /\ pc = "AWAITING_MODEL") =>
        \A i \in 1..Len(request[1].tools) :
            /\ KeysOf(request[1].tools[i].parameters)
                   \cap GEMINI_UNSUPPORTED_KEYS = {}
            /\ RequiredAreDeclared(request[1].tools[i].parameters)

\* --------------------------------------------- properties of the registry

\* C28: switchProvider returns null only for a provider id of the catalog
\* whose API key is configured and a model the catalog lists for that
\* provider; for every other pair of arguments it returns an error string.
C28_SwitchRejectsUnknownOrUnconfigured ==
    (lastCall.op = "switchProvider" /\ IsNull(lastCall.result)) =>
        /\ lastCall.providerId \in DOMAIN PROVIDER_CATALOG
        /\ lastCall.providerId \in apiKeys
        /\ \E i \in 1..Len(PROVIDER_CATALOG[lastCall.providerId].models) :
              PROVIDER_CATALOG[lastCall.providerId].models[i] = lastCall.model

\* C29: once switchProvider(p, m) has returned null, and until the next
\* switch does, the active spec and its label are those of (p, m), the
\* instance a provider call gets is the one built for (p, m), the persisted
\* active_llm value is p:m, and loading the module anew yields (p, m).
C29_SwitchIsUsedShownPersistedRestored ==
    ~IsNull(lastCall.chosen) =>
        LET c == lastCall.chosen[1]
            built == BuildProvider(activeSpec.providerId, activeSpec.model, apiKeys)
        IN /\ activeSpec = c
           /\ GetActiveProviderLabel(activeSpec) =
                  PROVIDER_CATALOG[c.providerId].name \o " . " \o c.model
           /\ IF IsNull(provider)
              THEN ~built.threw /\ built.provider = c
              ELSE provider[1] = c
           /\ \E i \in 1..Len(db.core_memories) :
                 /\ db.core_memories[i].key = ACTIVE_LLM_KEY
                 /\ db.core_memories[i].value = c.providerId \o ":" \o c.model
           /\ LoadActiveSpec(db.core_memories) = c

\* C30: a call of switchProvider that returns an error string leaves the
\* provider instance, the active spec and the persisted core memories as
\* they were.
C30_FailedSwitchChangesNothing ==
    [][(/\ lastCall' # lastCall
        /\ lastCall'.op = "switchProvider"
        /\ ~IsNull(lastCall'.result)) =>
           /\ provider' = provider
           /\ activeSpec' = activeSpec
           /\ db'.core_memories = db.core_memories]_vars

\* ------------------------------------- properties of the Gemini schemas

\* the names the schema j declares under properties, and the names its
\* required list has
DeclaredIn(j) ==
    IF \E n \in 1..Len(j.items) : j.items[n].key = "properties"
    THEN {MemberOf(j, "properties").items[n].key :
             n \in 1..Len(MemberOf(j, "properties").items)}
    ELSE {}
RequiredIn(j) ==
    IF \E n \in 1..Len(j.items) : j.items[n].key = "required"
    THEN {MemberOf(j, "required").items[n].s :
             n \in 1..Len(MemberOf(j, "required").items)}
    ELSE {}

\* C38: in every Gemini request each parameter a tool's schema declares
\* under properties is still declared in the schema sent, and each required
\* entry that names a declared parameter is still required.
C38_GeminiKeepsDeclaredParameters ==
    (activeProvider = "google" /\ pc = "AWAITING_MODEL") =>
        \A i \in 1..Len(tools) :
            /\ DeclaredIn(tools[i].parameters)
                  \subseteq DeclaredIn(request[1].tools[i].parameters)
            /\ RequiredIn(tools[i].parameters) \cap DeclaredIn(tools[i].parameters)
                  \subseteq RequiredIn(request[1].tools[i].parameters)

\* ---------------------------------------- properties of the store, again

\* C36: a step changes what loadHistory returns for a chat only when it is
\* a step of a saveHistory of that chat or a deleteHistory of that chat;
\* the histories of all other chats are as before.
C36_OtherChatsUntouched ==
    [][\A c \in Chats :
          LoadHistory(db', c) # LoadHistory(db, c) =>
              \/ save.pc # "idle" /\ save.chatId = c
              \/ save.pc = "idle" /\ lastOp'.op = "clear" /\ lastOp'.chatId = c]_vars

\* a save of chat 1 that replaced its history has been committed while chat
\* 2 has a history of its own
C36_Witness ==
    /\ save.pc = "saved"
    /\ save.chatId = 1
    /\ save.before # save.messages
    /\ Len(save.before) > 0
    /\ LoadHistory(db, 1) = save.messages
    /\ Len(LoadHistory(db, 2)) > 0

\* ----------------------------------------- properties of the turn, again

\* C35: a turn that ends with the max-iteration warning made as many
\* provider calls as the cap, each answered with tool calls; its
\* updatedHistory is the prior history, the user message, and per call the
\* assistant message followed by its tool results, so it ends with a tool
\* message and holds no assistant message with the warning; a turn on a
\* history that ends with tool messages puts its user message right after
\* them.
C35_CapEndsOnToolResults ==
    /\ pc = "MAX_ITER_EXCEEDED" =>
          /\ reply = MaxIterationsReply
          /\ Len(responses) = maxIterations
          /\ \A j \in 1..Len(responses) : ~IsFinal(responses[j])
          /\ updatedHistory =
                 history \o <<UserMessage(userMessage)>> \o ExpectedAppended(responses)
          /\ updatedHistory[Len(updatedHistory)].role = "tool"
          /\ \A n \in 1..Len(updatedHistory) :
                updatedHistory[n].role = "assistant" =>
                    updatedHistory[n].content # Some(MaxIterationsReply)
    /\ (Len(messages) > 0 /\ Len(history) > 0
           /\ history[Len(history)].role = "tool") =>
          /\ messages[Len(history) + 1].role = "tool"
          /\ messages[Len(history) + 2] = UserMessage(userMessage)

\* C37: the message translation of the active provider's adapter never
\* raises, whatever history the turn was started with, histories that an
\* earlier turn under another provider produced included.
C37_TranslationNeverRaises ==
    pc = "AWAITING_MODEL" => ~request[1].native.threw

\* C31: once startup has completed, the system prompt of every agent turn
\* holds the loaded-skills block whenever at least one skill file was
\* loaded, whatever has or has not run before the turn
C31_SkillsInEveryPrompt ==
    (startup = "started" /\ pc # "idle" /\ ~IsNull(skills) /\ Len(skills[1]) > 0)
        => Contains(systemPrompt, "## Loaded Skills")

\* C32: the system message of a turn is built when the turn starts and every
\* provider call of the turn is given that same message, so a soul_update
\* of the turn does not reach its remaining calls; the prompt of a turn that
\* starts holds the soul text as it is then
C32_SystemMessageFixedPerTurn ==
    [][/\ (pc = "idle" /\ pc' # "idle") =>
              /\ SOUL # "" => Contains(systemPrompt', SOUL)
              /\ messages'[1] = SystemMessage(systemPrompt')
       /\ (pc # "idle" /\ pc' # "idle") =>
              /\ systemPrompt' = systemPrompt
              /\ ~IsNull(request') =>
                     request'[1].native.messages[1] = SystemMessage(systemPrompt)]_vars

\* the second provider call of a second turn: the soul_update of the first
\* turn is in its system message, the soul_update of this turn is not
C32_Witness ==
    /\ pc = "AWAITING_MODEL"
    /\ iterations = 2
    /\ Contains(SOUL, "Be brief\n\nBe brief")
    /\ Contains(systemPrompt, "Be brief")
    /\ ~Contains(systemPrompt, "Be brief\n\nBe brief")
    /\ request[1].native.messages[1] = SystemMessage(systemPrompt)

\* C33: the stored setup step of a chat is absent or one of the 8 question
\* indices; /setup sets it to 0 also when a flow is in progress, each reply
\* advances it by one and clears it after the 8th, and a reply writes the
\* core memory of the current question unless it is "skip" (trimmed, in any
\* case), which leaves every stored value as it was
C33_SetupStepsAdvance ==
    [][LET step == db.setup_state[1]
           ValueOf(cm, k) ==
               IF \E i \in 1..Len(cm) : cm[i].key = k
               THEN Some(cm[CHOOSE i \in 1..Len(cm) : cm[i].key = k].value)
               ELSE Null
           keys == {SETUP_STEPS[i].key : i \in DOMAIN SETUP_STEPS}
       IN /\ \A c \in Chats : \/ IsNull(db'.setup_state[c])
                              \/ db'.setup_state[c][1] \in 0..7
          /\ Cardinality(keys) = 8
          /\ \A from \in Senders :
                 StartSetup(from, 1) => db'.setup_state[1] = Some(0)
          /\ \A from \in Senders, text \in {"Ann", " Skip "} :
                 HandleSetupReply(from, 1, text) =>
                     /\ db'.setup_state[1] =
                            IF step[1] = 7 THEN Null ELSE Some(step[1] + 1)
                     /\ \A k \in keys :
                            ValueOf(db'.core_memories, k) =
                                IF text = "Ann" /\ k = SETUP_STEPS[step[1] + 1].key
                                THEN Some("Ann")
                                ELSE ValueOf(db.core_memories, k)
          /\ db'.setup_state # db.setup_state =>
                 \E from \in Senders :
                     \/ StartSetup(from, 1)
                     \/ \E text \in {"Ann", " Skip "} : HandleSetupReply(from, 1, text)]_vars

\* a flow restarted after its first reply has run to its end: the first
\* question was answered, the last was skipped, the state is cleared
C33_Witness ==
    /\ Len(sent) = 11
    /\ sent[1].kind = "setup"
    /\ sent[2].kind = "question"
    /\ sent[3].kind = "setup"
    /\ sent[11].kind = "complete"
    /\ IsNull(db.setup_state[1])
    /\ \E i \in 1..Len(db.core_memories) :
           db.core_memories[i].key = "owner_name" /\ db.core_memories[i].value = "Ann"
    /\ \A i \in 1..Len(db.core_memories) : db.core_memories[i].key # "owner_people"

\* C34: a text message of a chat whose setup flow is active is consumed by
\* the flow: no turn starts, no provider call is made and the stored history
\* of the chat stays as it is; no turn runs for a chat while its flow is
\* active, and once the flow is over a text message starts a turn
C34_SetupConsumesText ==
    [][/\ \A from \in Senders, text \in {"Ann", " Skip "} :
              HandleSetupReply(from, 1, text) =>
                  /\ pc = "idle" /\ pc' = "idle"
                  /\ calls' = calls
                  /\ IsNull(request')
                  /\ handler' = handler
                  /\ LoadHistory(db', 1) = LoadHistory(db, 1)
       /\ (pc = "idle" /\ pc' # "idle") =>
              /\ IsNull(db.setup_state[handler'.chatId])
              /\ IsNull(db'.setup_state[handler'.chatId])
       /\ calls' > calls => IsNull(db.setup_state[handler.chatId])
       /\ (/\ Len(sent) > 0
           /\ sent[Len(sent)].kind = "complete"
           /\ handler.pc = "idle"
           /\ updates < MaxUpdates) =>
              \E from \in Senders :
                  ENABLED (TextMessage(from, 1, "hi")
                               /\ UNCHANGED <<registryVars, promptVars, toolVars>>)]_vars

\* the turn of a text message sent after the flow of the chat completed
\* awaits the provider, the answers of the flow stored and the history of
\* the chat still empty
C34_Witness ==
    /\ pc = "AWAITING_MODEL"
    /\ handler.chatId = 1
    /\ \E i \in 1..Len(sent) : sent[i].kind = "complete"
    /\ \A i \in 1..Len(sent) : sent[i].kind # "reply"
    /\ Len(db.core_memories) > 0
    /\ LoadHistory(db, 1) = <<>>

\* C39: executing the tool registered for a discovered MCP tool calls the
\* server the tool was discovered on with the tool's own name, whatever
\* underscores the two names hold
C39_McpDispatchReachesOwnTool ==
    (~IsNull(dispatched) /\ "mcpTool" \in DOMAIN dispatched[1]) =>
        dispatched[1].outcome =
            [server |-> dispatched[1].mcpTool.serverName,
             tool |-> dispatched[1].mcpTool.toolName]

\* C40: a file tool hands the fs module only paths that lie inside an
\* allowed directory, and the files outside every allowed directory stay
\* as they were
C40_FileToolsStayInAllowedDirs ==
    LET Inside(p) == \E dir \in {"/app/data", "/app/skills"} :
                         p = dir \/ StartsWith(p, dir \o "/")
    IN /\ (~IsNull(dispatched) /\ "target" \in DOMAIN dispatched[1]) =>
              \A p \in dispatched[1].accessed : Inside(p)
       /\ \A p \in {"/app/data2/s.txt", "/etc/passwd"} :
              p \in DOMAIN fs /\ fs[p] = "a"

====
